---- MODULE Spec2Model ----
(***************************************************************************)
(* A model of the upskill-js runtime: the Tool Execution Layer             *)
(* (ToolManager.callTool, tools.ts) and the Agentic Loop (runAgenticLoop   *)
(* and runAgenticLoopStream, loop.ts).                                     *)
(*                                                                         *)
(* Strings are modelled as sequences of tokens: a template literal such as *)
(* `Unknown tool '${name}'` is the sequence <<"Unknown tool '", name, "'">>,*)
(* and "s contains t" is "t is one of the tokens of s".                    *)
(*                                                                         *)
(* Two specifications are given over the one set of variables:             *)
(*   SpecTool  one ToolManager.callTool invocation against an initialized  *)
(*             registry, with the backend and the timers as environment;   *)
(*   Spec      one loop invocation (either variant), with the model        *)
(*             provider and the tool executions as environment.            *)
(***************************************************************************)
EXTENDS Integers, Sequences, FiniteSets, TLC

VARIABLES
    \* ---- ToolManager (tools.ts) ----
    mcpClients,     \* ToolManager.mcpClients: server name -> client, in insertion order
    mcpTools,       \* ToolManager.mcpTools: tool name -> serverName
    localTools,     \* ToolManager.localTools: the local tool names
    \* ---- one callTool invocation (tools.ts 257-279) ----
    ctPc,           \* "idle" | "try" | "await" | "sleep" | "returned" | "rejected"
    ctName,         \* the name argument
    attempt,        \* the for loop's counter
    lastError,      \* lastError (an Error record, or Null)
    inFlight,       \* backend calls started and not yet settled (attempt indices)
    ctResult,       \* the value the promise resolved to (a string), or Null
    attemptLog,     \* history: how each attempt ended, and with what
    ctTrace,        \* history: the attempts started and the backoff sleeps
    \* ---- ToolManager and SkillManager state the loop reads (tools.ts, skills.ts) ----
    toolInfos,      \* ToolManager.toolInfos: the descriptors (name, source), in order
    skills,         \* SkillManager.skills: skill name -> its metadata
    loadedSkills,   \* SkillManager.loadedSkills
    \* ---- one loop invocation (loop.ts 331-426 and 431-542) ----
    variant,        \* "generate" (runAgenticLoop) | "stream" (runAgenticLoopStream)
    pc,             \* "loop" | "model" | "tools" | "returned" | "thrown"
    messages,       \* the caller-supplied history
    coreMessages,   \* the conversation buffer
    iteration,      \* the for loop's counter
    tools,          \* the names of the tool set built for the current invocation
    toolCalls,      \* the tool-call requests of the current response
    toolResults,    \* the tool results of the current response, as they arrive
    running,        \* call ids whose execute function has not finished
    response,       \* the current response: its text and reasoning
    accumulatedReasoning,
    result,         \* the AgentResponse returned, the error thrown, or Null
    yielded,        \* the StreamEvents yielded to the caller (stream variant)
    modelLog,       \* history: the outcome of every model invocation
    \* ---- initialization and shutdown (tools.ts 77-220, 348-357; agent.ts 48-54, 171-174) ----
    mcpConfigs,     \* ToolManager.mcpConfigs
    localToolPaths, \* ToolManager.localToolPaths
    initialized,    \* ToolManager.initialized
    agentInitialized, \* ChatAgent.initialized
    initCalls,      \* each caller's position in initialize() or close()
    sessions,       \* every client that ever connected: its server, how often it was closed
    \* ---- one resolveConfigVars call (tools.ts 20-41) ----
    template,       \* the value argument, a string
    configObject,   \* the config argument (ToolManager.config)
    env,            \* process.env
    resolved,       \* the string returned, or Null
    \* ---- objects shared by reference ----
    heap,           \* object identity -> the array or schema object it is now
    runs            \* the loop invocations in progress on one agent

toolVars == <<mcpClients, mcpTools, localTools, ctPc, ctName, attempt, lastError,
              inFlight, ctResult, attemptLog, ctTrace>>

managerVars == <<toolInfos, skills>>

lifeVars == <<mcpConfigs, localToolPaths, initialized, agentInitialized, initCalls,
              sessions>>

callVars == <<ctPc, ctName, attempt, lastError, inFlight, ctResult, attemptLog, ctTrace>>

loopVars == <<loadedSkills, variant, pc, messages, coreMessages, iteration, tools,
              toolCalls, toolResults, running, response, accumulatedReasoning, result,
              yielded, modelLog>>

resolveVars == <<template, configObject, env, resolved>>

heapVars == <<heap, runs>>

vars == <<toolVars, managerVars, lifeVars, loopVars, resolveVars, heapVars>>

(***************************************************************************)
(* JavaScript values: every value is a record with a type tag t.           *)
(***************************************************************************)
Null == [t |-> "null"]
Undefined == [t |-> "undefined"]
Str(tokens) == [t |-> "string", s |-> tokens]
Err(message) == [t |-> "Error", message |-> message]
IsString(v) == v.t = "string"

Range(s) == {s[i] : i \in DOMAIN s}

(***************************************************************************)
(* tools.ts 12-14: the environment-configured constants, at their defaults *)
(***************************************************************************)
TOOL_TIMEOUT_MS == 30000
TOOL_MAX_RETRIES == 3
TOOL_RETRY_BACKOFF_MS == 1000

RECURSIVE Pow2(_)
Pow2(n) == IF n = 0 THEN 1 ELSE 2 * Pow2(n - 1)

(***************************************************************************)
(* The environment of callTool: the names it is called with, what a        *)
(* backend resolves to, and what it throws.                                *)
(***************************************************************************)
ToolNames == {"remote_tool", "local_tool", "missing_tool"}

\* An MCP CallToolResult: a content array of items (with or without a text
\* field), or a result without a content array.
TextItem(x) == [t |-> "object", hasText |-> TRUE, text |-> x]
OtherItem == [t |-> "object", hasText |-> FALSE]
RemoteResults ==
    { [t |-> "object", hasContent |-> TRUE, content |-> <<TextItem("sunny")>>],
      [t |-> "object", hasContent |-> TRUE, content |-> <<TextItem("sunny"), OtherItem>>],
      [t |-> "object", hasContent |-> FALSE] }

\* What a local tool function returns: null, undefined, a string, a structured
\* value with a JSON text, or a structured value JSON.stringify throws on.
LocalResults ==
    { Null, Undefined, Str(<<"42">>),
      [t |-> "object", json |-> <<"{\"sum\":42}">>, circular |-> FALSE],
      [t |-> "object", json |-> <<>>, circular |-> TRUE] }

\* What a backend throws or rejects with: an Error instance, or another value.
Thrown ==
    { Err(<<"connection closed">>),
      Str(<<"bad arguments">>),
      [t |-> "object"] }

\* String(v) for the values above.
StringOf(v) ==
    CASE v.t = "string" -> v.s
      [] v.t = "null" -> <<"null">>
      [] v.t = "undefined" -> <<"undefined">>
      [] v.t = "Error" -> <<"Error: ">> \o v.message
      [] OTHER -> <<"[object Object]">>

\* parts.join(sep)
RECURSIVE Join(_, _)
Join(parts, sep) ==
    IF parts = <<>> THEN <<>>
    ELSE IF Len(parts) = 1 THEN parts[1]
    ELSE parts[1] \o <<sep>> \o Join(Tail(parts), sep)

\* tools.ts 268: e instanceof Error ? e : new Error(String(e))
ToError(e) == IF e.t = "Error" THEN e ELSE Err(StringOf(e))

\* tools.ts 292-304: the remote result converted to a string
ConvertRemote(r) ==
    IF r.hasContent
    THEN Str(Join([i \in DOMAIN r.content |->
                    IF r.content[i].hasText THEN <<r.content[i].text>>
                    ELSE StringOf(r.content[i])], "\n"))
    ELSE Str(StringOf(r))

\* tools.ts 311-317: the local result converted to a string; JSON.stringify
\* throws on a circular structure. [ok, value] or [ok, error].
ConvertLocal(r) ==
    IF r.t \in {"null", "undefined"} THEN [ok |-> TRUE, value |-> Str(<<>>)]
    ELSE IF r.t = "string" THEN [ok |-> TRUE, value |-> r]
    ELSE IF r.circular
         THEN [ok |-> FALSE,
               error |-> Err(<<"Converting circular structure to JSON">>)]
         ELSE [ok |-> TRUE, value |-> Str(r.json)]

\* tools.ts 281-321, callToolImpl up to its first await: which backend the
\* name resolves to, or the error it throws at once.
clientNames == {mcpClients[i].name : i \in DOMAIN mcpClients}

\* tools.ts 239-241
getToolNames == [i \in DOMAIN toolInfos |-> toolInfos[i].name]

Resolve(name) ==
    IF name \in DOMAIN mcpTools
    THEN IF mcpTools[name] \in clientNames
         THEN [backend |-> "mcp"]
         ELSE [backend |-> "none",
               error |-> Err(<<"MCP server '", mcpTools[name], "' not connected">>)]
    ELSE IF name \in localTools
         THEN [backend |-> "local"]
         ELSE [backend |-> "none", error |-> Err(<<"Unknown tool '", name, "'">>)]

\* tools.ts 326: the error the timer rejects with
TimeoutError == Err(<<"Timeout after ", ToString(TOOL_TIMEOUT_MS), "ms">>)

BackoffConstant(a) == TOOL_RETRY_BACKOFF_MS

\* tools.ts 272: the backoff slept after failed attempt number a (from 0)
Backoff(a) == TOOL_RETRY_BACKOFF_MS * Pow2(a)

SleepsAfterEvery(a) == a < TOOL_MAX_RETRIES

\* tools.ts 271: whether a backoff sleep follows failed attempt number a
SleepsAfter(a) == a < TOOL_MAX_RETRIES - 1

\* tools.ts 260: the for loop's condition
MoreAttempts(a) == a < TOOL_MAX_RETRIES

ExhaustedThrows(name, err) == [pc |-> "rejected", value |-> err]

\* tools.ts 278: how callTool ends once the attempts are used up
Exhausted(name, err) ==
    [pc |-> "returned",
     value |-> Str(<<"Error: Tool '", name, "' failed after ",
                     ToString(TOOL_MAX_RETRIES), " attempts: ">>
                   \o (IF err.t = "null" THEN <<"undefined">> ELSE err.message))]

(***************************************************************************)
(* ToolManager.callTool, tools.ts 257-279.                                 *)
(***************************************************************************)

\* tools.ts 267-275, the catch block: record the error, then sleep the backoff
\* (when another attempt follows) or go straight to the loop's increment.
Catch(e, how, trace) ==
    /\ lastError' = ToError(e)
    /\ attemptLog' = Append(attemptLog, [how |-> how, raw |-> e])
    /\ IF SleepsAfter(attempt)
       THEN /\ ctTrace' = Append(trace, [e |-> "sleep", ms |-> Backoff(attempt)])
            /\ ctPc' = "sleep"
            /\ attempt' = attempt
       ELSE /\ ctTrace' = trace
            /\ ctPc' = "try"
            /\ attempt' = attempt + 1
    /\ ctResult' = ctResult

\* tools.ts 266: return result
Return(value, raw) ==
    /\ ctPc' = "returned"
    /\ ctResult' = value
    /\ attemptLog' = Append(attemptLog, [how |-> "value", raw |-> raw])
    /\ UNCHANGED <<attempt, lastError, ctTrace>>

\* tools.ts 257-258: callTool(name, args) is called
CallTool(name) ==
    /\ ctPc = "idle"
    /\ ctPc' = "try"
    /\ ctName' = name
    /\ attempt' = 0
    /\ lastError' = Null
    /\ UNCHANGED <<managerVars, lifeVars, resolveVars, heapVars,
                   loopVars, mcpClients, mcpTools, localTools, inFlight, ctResult,
                   attemptLog, ctTrace>>

\* tools.ts 260-265 with 281-290, 307-310, 320: one attempt starts; callToolImpl
\* runs to its first await, or throws at once
StartAttempt ==
    /\ ctPc = "try"
    /\ MoreAttempts(attempt)
    /\ LET r == Resolve(ctName) IN
       IF r.backend = "none"
       THEN /\ Catch(r.error, "unresolved", Append(ctTrace, [e |-> "attempt"]))
            /\ inFlight' = inFlight
       ELSE /\ ctPc' = "await"
            /\ inFlight' = inFlight \cup {attempt}
            /\ ctTrace' = Append(ctTrace, [e |-> "attempt"])
            /\ UNCHANGED <<attempt, lastError, ctResult, attemptLog>>
    /\ UNCHANGED <<managerVars, lifeVars, resolveVars, heapVars,
                   loopVars, mcpClients, mcpTools, localTools, ctName>>

\* tools.ts 290-304, 310-317, 329-333: the backend of the awaited attempt
\* resolves before the timer fires
BackendReturns ==
    /\ ctPc = "await"
    /\ attempt \in inFlight
    /\ inFlight' = inFlight \ {attempt}
    /\ \/ /\ Resolve(ctName).backend = "mcp"
          /\ \E r \in RemoteResults : Return(ConvertRemote(r), r)
       \/ /\ Resolve(ctName).backend = "local"
          /\ \E r \in LocalResults :
                LET c == ConvertLocal(r) IN
                IF c.ok THEN Return(c.value, r) ELSE Catch(c.error, "raised", ctTrace)
    /\ UNCHANGED <<managerVars, lifeVars, resolveVars, heapVars,
                   loopVars, mcpClients, mcpTools, localTools, ctName>>

\* tools.ts 290, 310, 334-337: the backend of the awaited attempt throws or
\* rejects before the timer fires
BackendRaises ==
    /\ ctPc = "await"
    /\ attempt \in inFlight
    /\ inFlight' = inFlight \ {attempt}
    /\ \E e \in Thrown : Catch(e, "raised", ctTrace)
    /\ UNCHANGED <<managerVars, lifeVars, resolveVars, heapVars,
                   loopVars, mcpClients, mcpTools, localTools, ctName>>

TimeoutNeverFires ==
    /\ ctPc = "await"
    /\ UNCHANGED vars

\* tools.ts 323-327: the timer fires first; the backend call is not cancelled
\* and stays in flight
TimeoutFires ==
    /\ ctPc = "await"
    /\ Catch(TimeoutError, "timeout", ctTrace)
    /\ UNCHANGED <<managerVars, lifeVars, resolveVars, heapVars,
                   loopVars, mcpClients, mcpTools, localTools, ctName, inFlight>>

\* tools.ts 329-337: the backend call of a timed-out attempt settles later;
\* resolve and reject of the settled promise do nothing
LateSettle(k) ==
    /\ k \in inFlight
    /\ ~(ctPc = "await" /\ k = attempt)
    /\ inFlight' = inFlight \ {k}
    /\ UNCHANGED <<managerVars, lifeVars, resolveVars, heapVars,
                   loopVars, mcpClients, mcpTools, localTools, ctPc, ctName, attempt,
                   lastError, ctResult, attemptLog, ctTrace>>

\* tools.ts 273, 341-343, then 260: the backoff sleep ends, attempt++
SleepDone ==
    /\ ctPc = "sleep"
    /\ ctPc' = "try"
    /\ attempt' = attempt + 1
    /\ UNCHANGED <<managerVars, lifeVars, resolveVars, heapVars,
                   loopVars, mcpClients, mcpTools, localTools, ctName, lastError, inFlight,
                   ctResult, attemptLog, ctTrace>>

\* tools.ts 260, 278: the loop ends without a return
ReturnExhausted ==
    /\ ctPc = "try"
    /\ ~MoreAttempts(attempt)
    /\ LET x == Exhausted(ctName, lastError) IN
       /\ ctPc' = x.pc
       /\ ctResult' = x.value
    /\ UNCHANGED <<managerVars, lifeVars, resolveVars, heapVars,
                   loopVars, mcpClients, mcpTools, localTools, ctName, attempt, lastError,
                   inFlight, attemptLog, ctTrace>>

\* The callers of one agent: calls of theirs can overlap
Callers == {"c1", "c2"}
\* A caller that is in no initialize() and no close(); plan is what the
\* servers and modules of its last initialize() were going to do
Idle == [pc |-> "idle", pos |-> 0, plan |-> [server |-> <<>>, module |-> <<>>]]

\* tools.ts 179, 213: the source of a descriptor
McpSource(serverName) == <<"mcp:", serverName>>
LocalSource == <<"local">>

\* The registry after ToolManager.initialize(): one connected server with one
\* tool, and one local tool (tools.ts 133-134, 170-180, 202-214).
InitRegistry ==
    /\ mcpConfigs = <<[name |-> "server", transport |-> "stdio", target |-> TRUE]>>
    /\ localToolPaths = <<"local.js">>
    /\ mcpClients = <<[name |-> "server", client |-> 1]>>
    /\ sessions = <<[server |-> "server", closes |-> 0]>>
    /\ mcpTools = [n \in {"remote_tool"} |-> "server"]
    /\ localTools = {"local_tool"}
    /\ toolInfos = <<[name |-> "remote_tool", source |-> McpSource("server")],
                     [name |-> "local_tool", source |-> LocalSource]>>
    /\ initialized = TRUE
    /\ agentInitialized = TRUE
    /\ initCalls = [c \in Callers |-> Idle]

\* No loop invocation: the agent's managers as constructed (agent.ts 34-42,
\* skills.ts 19-22), the loop's locals unset.
InitIdleLoop ==
    /\ skills = <<>>
    /\ loadedSkills = {}
    /\ variant = "generate"
    /\ pc = "returned"
    /\ messages = <<>>
    /\ coreMessages = <<>>
    /\ iteration = 0
    /\ tools = {}
    /\ toolCalls = <<>>
    /\ toolResults = <<>>
    /\ running = {}
    /\ response = [text |-> Str(<<>>), reasoning |-> Undefined]
    /\ accumulatedReasoning = <<>>
    /\ result = Null
    /\ yielded = <<>>
    /\ modelLog = <<>>

\* No resolveConfigVars call is in progress
InitIdleResolve ==
    /\ template = <<>>
    /\ configObject = Null
    /\ env = <<>>
    /\ resolved = Null

\* No loop invocation is in progress and no object is shared
InitIdleHeap ==
    /\ heap = <<>>
    /\ runs = <<>>

InitCall ==
    /\ ctPc = "idle"
    /\ ctName = "none"
    /\ attempt = 0
    /\ lastError = Null
    /\ inFlight = {}
    /\ ctResult = Null
    /\ attemptLog = <<>>
    /\ ctTrace = <<>>

InitTool == InitRegistry /\ InitCall /\ InitIdleLoop /\ InitIdleResolve /\ InitIdleHeap

NextTool ==
    \/ \E name \in ToolNames : CallTool(name)
    \/ StartAttempt
    \/ BackendReturns
    \/ BackendRaises
    \/ TimeoutFires
    \/ \E k \in 0..(TOOL_MAX_RETRIES - 1) : LateSettle(k)
    \/ SleepDone
    \/ ReturnExhausted

SpecTool == InitTool /\ [][NextTool]_vars

\* callTool under the scheduling of the runtime: code that can run does run
\* (the next attempt, tools.ts 260-262; the return after the loop, tools.ts
\* 278), and a timer that was set fires (the attempt's timeout, tools.ts
\* 325-327; the backoff sleep, tools.ts 341-343). Nothing makes a backend
\* respond.
FairTool ==
    /\ WF_vars(StartAttempt)
    /\ WF_vars(TimeoutFires)
    /\ WF_vars(SleepDone)
    /\ WF_vars(ReturnExhausted)

SpecToolFair == InitTool /\ [][NextTool]_vars /\ FairTool

(***************************************************************************)
(* Properties of callTool, checked under SpecTool.                         *)
(***************************************************************************)
Attempts == Len(SelectSeq(ctTrace, LAMBDA x : x.e = "attempt"))
Sleeps == SelectSeq(ctTrace, LAMBDA x : x.e = "sleep")
Failures == Len(SelectSeq(attemptLog, LAMBDA x : x.how # "value"))
Registered(name) == Resolve(name).backend # "none"
Contains(str, token) == token \in Range(str.s)
EndsWith(str, suffix) ==
    /\ Len(str.s) >= Len(suffix)
    /\ SubSeq(str.s, Len(str.s) - Len(suffix) + 1, Len(str.s)) = suffix

\* The trace of a call whose first n attempts failed and whose attempt n+1 was
\* the last: attempt, sleep base*2^0, attempt, sleep base*2^1, ..., attempt.
RetryTrace(n) ==
    [i \in 1..(2 * n + 1) |->
        IF i % 2 = 1 THEN [e |-> "attempt"]
        ELSE [e |-> "sleep", ms |-> TOOL_RETRY_BACKOFF_MS * Pow2((i \div 2) - 1)]]

\* C1: callTool never throws. Whatever the name (remote, local, unknown) and
\* however each attempt ends (a value, an exception, a timeout), the promise is
\* never rejected, a started call can always take its next step, and the
\* value it resolves to is a string.
C1_CallToolNeverThrows ==
    /\ ctPc # "rejected"
    /\ ctPc = "returned" => IsString(ctResult)
    /\ ctPc = "try" => ENABLED (StartAttempt \/ ReturnExhausted)
    /\ ctPc = "await" => ENABLED TimeoutFires
    /\ ctPc = "sleep" => ENABLED SleepDone

\* C1 witness: a call on a registered tool returned after a timed-out attempt,
\* an attempt that raised and a third failure.
C1_Witness ==
    /\ ctPc = "returned"
    /\ Registered(ctName)
    /\ Len(attemptLog) = TOOL_MAX_RETRIES
    /\ attemptLog[1].how = "timeout"
    /\ attemptLog[2].how = "raised"
    /\ IsString(ctResult)

\* C2 (as claimed): a call with a name in neither registry makes exactly one
\* attempt, sleeps no backoff and returns a text naming the tool.
C2_UnknownToolOneAttempt ==
    (ctPc = "returned" /\ ~Registered(ctName)) =>
        /\ Attempts = 1
        /\ Sleeps = <<>>
        /\ Contains(ctResult, ctName)

\* C3: for a registered tool whose first N attempts fail (exception or
\* timeout) and whose attempt N+1 succeeds, callTool returns the converted
\* success value of attempt N+1, and the attempts and sleeps are exactly
\* attempt, sleep base*2^0, attempt, ..., sleep base*2^(N-1), attempt.
C3_RetryThenSuccess ==
    (ctPc = "returned" /\ Registered(ctName)
        /\ attemptLog[Len(attemptLog)].how = "value") =>
        LET N == Failures
            raw == attemptLog[Len(attemptLog)].raw
        IN /\ N + 1 <= TOOL_MAX_RETRIES
           /\ Attempts = N + 1
           /\ Len(Sleeps) = N
           /\ ctTrace = RetryTrace(N)
           /\ ctResult = IF Resolve(ctName).backend = "mcp"
                          THEN ConvertRemote(raw) ELSE ConvertLocal(raw).value

\* C3 witness: two failed attempts, one of them a timeout, then a success.
C3_Witness ==
    /\ ctPc = "returned"
    /\ Len(attemptLog) = 3
    /\ attemptLog[1].how = "timeout"
    /\ attemptLog[2].how = "raised"
    /\ attemptLog[3].how = "value"
    /\ Sleeps = <<[e |-> "sleep", ms |-> 1000], [e |-> "sleep", ms |-> 2000]>>

\* C4: for a registered tool that fails on every attempt, exactly
\* TOOL_MAX_RETRIES attempts are made, no sleep follows the last one, and
\* callTool returns a string holding the tool name, the attempt count and the
\* message of the last attempt's error.
C4_ExhaustedReturnsError ==
    (ctPc = "returned" /\ Registered(ctName)
        /\ attemptLog[Len(attemptLog)].how # "value") =>
        /\ Attempts = TOOL_MAX_RETRIES
        /\ Failures = TOOL_MAX_RETRIES
        /\ ctTrace = RetryTrace(TOOL_MAX_RETRIES - 1)
        /\ IsString(ctResult)
        /\ Contains(ctResult, ctName)
        /\ Contains(ctResult, ToString(TOOL_MAX_RETRIES))
        /\ EndsWith(ctResult, ToError(attemptLog[Len(attemptLog)].raw).message)

\* C4 witness: every attempt failed, the last one by timeout.
C4_Witness ==
    /\ ctPc = "returned"
    /\ Registered(ctName)
    /\ Failures = TOOL_MAX_RETRIES
    /\ attemptLog[TOOL_MAX_RETRIES].how = "timeout"
    /\ EndsWith(ctResult, TimeoutError.message)

(***************************************************************************)
(* The Agentic Loop, loop.ts.                                              *)
(***************************************************************************)

\* loop.ts 14: UPSKILL_MAX_AGENT_ITERATIONS (default 50), configured small
MAX_AGENT_ITERATIONS == 2
\* loop.ts 17
CONTEXT_CHAR_LIMIT == 400000
\* loop.ts 47: lists of at most this many messages are never pruned
PRUNE_MIN_MESSAGES == 12
\* loop.ts 68: messages.slice(-10)
PRUNE_KEEP_LAST == 10
\* The most tool-call requests in one model response
MaxCalls == 2
\* The longest message list pruning is applied to on its own
MaxMessages == 14
\* The most names in one loadSkills call
MaxNames == 2

\* "".length of a string of tokens
RECURSIVE Chars(_)
Chars(tokens) == IF tokens = <<>> THEN 0 ELSE Len(Head(tokens)) + Chars(Tail(tokens))

\* A string is truthy when it is not empty
Truthy(v) == v.t = "string" /\ v.s # <<>>

RECURSIVE Sum(_)
Sum(ns) == IF ns = <<>> THEN 0 ELSE Head(ns) + Sum(Tail(ns))

(***************************************************************************)
(* CoreMessage. id stands for the object's identity (Array.includes in     *)
(* pruneContext compares by identity); size is what estimateContextSize    *)
(* adds for the message: its text, tool-call and tool-result lengths.      *)
(***************************************************************************)
Message(id, role, hasText, calls, results, size) ==
    [id |-> id, role |-> role, hasText |-> hasText, calls |-> calls,
     results |-> results, size |-> size]

\* loop.ts 22-40
estimateContextSize(msgs) == Sum([i \in DOMAIN msgs |-> msgs[i].size])

firstUserIdxNone(msgs) == 0

\* loop.ts 52-58: the index of the first user message, or 0
firstUserIdx(msgs) ==
    IF \E i \in DOMAIN msgs : msgs[i].role = "user"
    THEN CHOOSE i \in DOMAIN msgs :
            /\ msgs[i].role = "user"
            /\ \A j \in 1..(i - 1) : msgs[j].role # "user"
    ELSE 0

pruneContextWhateverLength(msgs) ==
    LET f == firstUserIdx(msgs)
        pruned == IF f > 0 THEN <<msgs[f]>> ELSE <<>>
        from == IF Len(msgs) > PRUNE_KEEP_LAST THEN Len(msgs) - PRUNE_KEEP_LAST + 1 ELSE 1
        lastMessages == SubSeq(msgs, from, Len(msgs))
    IN pruned \o SelectSeq(lastMessages, LAMBDA m : m \notin Range(pruned))

\* loop.ts 46-77
pruneContext(msgs) ==
    IF Len(msgs) <= PRUNE_MIN_MESSAGES THEN msgs
    ELSE LET f == firstUserIdx(msgs)
             pruned == IF f > 0 THEN <<msgs[f]>> ELSE <<>>
             lastMessages == SubSeq(msgs, Len(msgs) - PRUNE_KEEP_LAST + 1, Len(msgs))
         IN pruned \o SelectSeq(lastMessages, LAMBDA m : m \notin Range(pruned))

pruneContextIfNeededNever(msgs) == msgs

\* loop.ts 83-94
pruneContextIfNeeded(msgs) ==
    IF estimateContextSize(msgs) < CONTEXT_CHAR_LIMIT THEN msgs
    ELSE pruneContext(msgs)

\* String.prototype.toLowerCase on the tokens error texts are made of
ToLower(token) ==
    CASE token = "Context" -> "context"
      [] token = "Maximum" -> "maximum"
      [] token = "Token" -> "token"
      [] token = "Too Long" -> "too long"
      [] OTHER -> token

OverflowMarkers == {"context", "token", "too long", "maximum"}

isContextOverflowErrorCaseSensitive(error) ==
    \E tok \in Range(StringOf(error)) : tok \in OverflowMarkers

isContextOverflowErrorAny(error) == TRUE

\* loop.ts 99-102
isContextOverflowError(error) ==
    \E tok \in Range(StringOf(error)) : ToLower(tok) \in OverflowMarkers

(***************************************************************************)
(* SkillManager, skills.ts.                                                *)
(***************************************************************************)
\* skills.ts 394-400
size == Cardinality(DOMAIN skills)
loadedCount == Cardinality(loadedSkills)

\* skills.ts 232-243
getRequiredTools ==
    UNION {Range(skills[n].tools) : n \in loadedSkills \cap DOMAIN skills}

\* skills.ts 305-316: getLoadReferenceToolSchema() is not null
hasLoadReference ==
    \E n \in loadedSkills \cap DOMAIN skills : skills[n].references # {}

\* skills.ts 351-362: getLoadScriptToolSchema() is not null
hasLoadScript ==
    \E n \in loadedSkills \cap DOMAIN skills : DOMAIN skills[n].scripts # {}

\* Array.prototype.sort on names: the names the model uses, in the order
\* JavaScript's default string comparison puts them
NameOrder == <<"calc", "guide", "math", "nope", "plot", "weather">>
InsertionOrdered(S) ==
    SelectSeq(<<"weather", "plot", "nope", "math", "guide", "calc">>, LAMBDA n : n \in S)
Sorted(S) == SelectSeq(NameOrder, LAMBDA n : n \in S)
Tokens(names) == [i \in DOMAIN names |-> <<names[i]>>]

\* tools.ts 246-252 with skills.ts 81: toolDescriptions?.get(toolName) || ""
ToolDescription(name) ==
    IF name \in Range(getToolNames) THEN <<"description of ", name>> ELSE <<>>

\* skills.ts 75-105: the content of one known skill (the backquotes around
\* the reference and script names left out)
skillContent(n) ==
    LET skill == skills[n]
        toolLine(i) ==
            <<"\n- **", skill.tools[i], "**">>
            \o (IF ToolDescription(skill.tools[i]) # <<>>
                THEN <<": ">> \o ToolDescription(skill.tools[i]) ELSE <<>>)
        refNames == Sorted(skill.references)
        scriptNames == Sorted(DOMAIN skill.scripts)
    IN <<"# Skill: ", n, "\n\n", skill.content>>
       \o (IF skill.tools # <<>>
           THEN <<"\n\n## Tools for ", n, "\n">>
                \o Join([i \in DOMAIN skill.tools |-> toolLine(i)], "")
           ELSE <<>>)
       \o (IF skill.references # {}
           THEN <<"\n\n## Available References\n">>
                \o Join([i \in DOMAIN refNames |-> <<"\n- ", refNames[i]>>], "")
           ELSE <<>>)
       \o (IF DOMAIN skill.scripts # {}
           THEN <<"\n\n## Available Scripts\n">>
                \o Join([i \in DOMAIN scriptNames |->
                          <<"\n- ", scriptNames[i], " (",
                            skill.scripts[scriptNames[i]], ")">>], "")
           ELSE <<>>)

loadSkillsAllOrNothing(names) ==
    LET unknown == SelectSeq(names, LAMBDA n : n \notin DOMAIN skills)
        known == IF unknown # <<>> THEN <<>>
                 ELSE SelectSeq(names, LAMBDA n : n \in DOMAIN skills)
        errors == [i \in DOMAIN unknown |->
                    <<"Error: Skill '", unknown[i], "' not found. Available skills: ">>
                    \o Join(Tokens(Sorted(DOMAIN skills)), ", ")]
        contentParts == [i \in DOMAIN known |-> skillContent(known[i])]
    IN [added |-> Range(known),
        content |->
            IF errors # <<>> /\ contentParts = <<>>
            THEN Str(Join(errors, "\n"))
            ELSE Str(Join(contentParts, "\n\n---\n\n")),
        success |-> contentParts # <<>>]

\* skills.ts 60-127: loadSkills(names): the names added to the loaded set and
\* the SkillLoadResult
loadSkills(names) ==
    LET unknown == SelectSeq(names, LAMBDA n : n \notin DOMAIN skills)
        known == SelectSeq(names, LAMBDA n : n \in DOMAIN skills)
        errors == [i \in DOMAIN unknown |->
                    <<"Error: Skill '", unknown[i], "' not found. Available skills: ">>
                    \o Join(Tokens(Sorted(DOMAIN skills)), ", ")]
        contentParts == [i \in DOMAIN known |-> skillContent(known[i])]
    IN [added |-> Range(known),
        content |->
            IF errors # <<>> /\ contentParts = <<>>
            THEN Str(Join(errors, "\n"))
            ELSE IF errors # <<>>
                 THEN Str(Join(errors \o << <<"">> >> \o contentParts, "\n"))
                 ELSE Str(Join(contentParts, "\n\n---\n\n")),
        success |-> contentParts # <<>>]

buildAISDKToolsRegistryWithoutSkills ==
    (IF size > 0 THEN {"load_skill"} ELSE Range(getToolNames))
    \cup (IF loadedCount > 0
          THEN (IF getRequiredTools # {}
                THEN {n \in Range(getToolNames) : n \in getRequiredTools}
                ELSE Range(getToolNames))
               \cup (IF hasLoadReference THEN {"load_reference"} ELSE {})
               \cup (IF hasLoadScript THEN {"load_script"} ELSE {})
          ELSE {})

buildAISDKToolsAllOnceLoaded ==
    (IF size > 0 THEN {"load_skill"} ELSE {})
    \cup (IF loadedCount > 0
          THEN Range(getToolNames)
               \cup (IF hasLoadReference THEN {"load_reference"} ELSE {})
               \cup (IF hasLoadScript THEN {"load_script"} ELSE {})
          ELSE {})

\* loop.ts 209-287: the names of the tool set buildAISDKTools returns
buildAISDKTools ==
    (IF size > 0 THEN {"load_skill"} ELSE {})
    \cup (IF loadedCount > 0
          THEN (IF getRequiredTools # {}
                THEN {n \in Range(getToolNames) : n \in getRequiredTools}
                ELSE Range(getToolNames))
               \cup (IF hasLoadReference THEN {"load_reference"} ELSE {})
               \cup (IF hasLoadScript THEN {"load_script"} ELSE {})
          ELSE {})

(***************************************************************************)
(* The environment of the loop: the agent's configuration, the caller's    *)
(* history, and what the model provider answers.                           *)
(***************************************************************************)
NoSkills == <<>>
TwoSkills ==
    [n \in {"weather", "math"} |->
        IF n = "weather"
        THEN [content |-> "Answer weather questions.", tools |-> <<"remote_tool">>,
              references |-> {"guide"}, scripts |-> <<>>]
        ELSE [content |-> "Do arithmetic.", tools |-> <<>>,
              references |-> {},
              scripts |-> [x \in {"calc", "plot"} |-> IF x = "calc" THEN ".ts" ELSE ".rb"]]]
SkillConfigs == {NoSkills, TwoSkills}

\* A caller message as ChatAgent.run passes it (agent.ts 113-116): a role and
\* a content of so many characters, no tool_calls and no tool_call_id.
CallerMessage(role, chars) == [role |-> role, chars |-> chars]
History(n, firstUser, chars) ==
    [i \in 1..n |->
        CallerMessage(IF i = firstUser THEN "user"
                      ELSE IF i < firstUser THEN (IF i = 1 THEN "system" ELSE "assistant")
                      ELSE IF (i - firstUser) % 2 = 1 THEN "assistant" ELSE "user",
                      chars)]
Histories ==
    {History(1, 1, 10), History(12, 2, 40000), History(13, 1, 10), History(13, 1, 40000)}

\* A message of a history that holds tool calls (loop.ts 786-791): an
\* assistant message with tool_calls, and the tool message with tool_call_id
CallerToolCalls(ids, chars) ==
    [role |-> "assistant", chars |-> chars, tool_calls |-> ids]
CallerToolResult(id, chars) ==
    [role |-> "tool", chars |-> chars, tool_call_id |-> id]

\* loop.ts 292-326: a tool message becomes one tool-result part with the
\* message's tool_call_id, an assistant message with tool_calls a text part
\* (when it has content) and one tool-call part for each call, every other
\* message keeps its role and text
convertMessage(msg, id) ==
    IF msg.role = "tool"
    THEN Message(id, "tool", FALSE, <<>>,
                 <<[toolCallId |-> IF "tool_call_id" \in DOMAIN msg
                                   THEN msg.tool_call_id ELSE <<>>,
                    result |-> Str(<<"content">>)]>>,
                 msg.chars)
    ELSE IF msg.role = "assistant" /\ "tool_calls" \in DOMAIN msg
    THEN Message(id, "assistant", msg.chars > 0, msg.tool_calls, <<>>, msg.chars)
    ELSE Message(id, msg.role, msg.chars > 0, <<>>, <<>>, msg.chars)

\* What the model answers: a text (maybe empty) and maybe a reasoning
ResponseHeads ==
    { [text |-> Str(<<"answer">>), reasoning |-> Undefined],
      [text |-> Str(<<>>), reasoning |-> Undefined],
      [text |-> Str(<<"answer">>), reasoning |-> Str(<<"think">>)] }

\* The text and reasoning that come with tool-call requests: a single request
\* comes with a reasoning and no text, several requests with a text
ToolCallHead(calls) ==
    IF Len(calls) = 1
    THEN [text |-> Str(<<>>), reasoning |-> Str(<<"think">>)]
    ELSE [text |-> Str(<<"answer">>), reasoning |-> Undefined]

\* The tool-call requests the model can make of the tool set it was given
CallOptions(exposed) ==
    {[toolName |-> "load_skill", args |-> a] :
        a \in IF "load_skill" \in exposed THEN {<<"weather">>, <<"nope", "math">>} ELSE {}}
    \cup {[toolName |-> n, args |-> <<>>] : n \in exposed \cap Range(getToolNames)}
    \cup {[toolName |-> "load_reference", args |-> a] :
        a \in IF "load_reference" \in exposed THEN {<<"weather", "guide">>} ELSE {}}
    \cup {[toolName |-> "load_script", args |-> a] :
        a \in IF "load_script" \in exposed THEN {<<"math", "calc">>} ELSE {}}

\* The requests of one response: one request, or several requests of the
\* same backend tool
BackendCalls(exposed) == {c \in CallOptions(exposed) : c.toolName \in Range(getToolNames)}
CallLists(exposed) ==
    {<<c>> : c \in CallOptions(exposed)}
    \cup {[i \in 1..k |-> c] : k \in 2..MaxCalls, c \in BackendCalls(exposed)}

\* The errors a model invocation fails with
ModelErrors ==
    { Err(<<"Context", " window exceeded">>),
      Err(<<"rate limit reached">>) }

\* The tool-call ids of one response are distinct, and distinct from those of
\* the other iterations
CallId(i, k) == <<i, k>>
WithIds(calls, i) ==
    [k \in DOMAIN calls |->
        [toolCallId |-> CallId(i, k), toolName |-> calls[k].toolName,
         args |-> calls[k].args]]

(***************************************************************************)
(* The execute functions of the tool set (loop.ts 197-202, 228-233,        *)
(* 259-262, 275-281).                                                      *)
(***************************************************************************)
loadReferenceOnlyLoaded(skillName, referenceName, readOk) ==
    IF /\ skillName \in loadedSkills \cap DOMAIN skills
       /\ referenceName \in skills[skillName].references
       /\ readOk
    THEN [success |-> TRUE,
          content |-> Str(<<"# Reference: ", referenceName, "\n\n", "(file content)">>)]
    ELSE [success |-> FALSE,
          content |-> Str(<<"Error: Skill '", skillName, "' is not loaded.">>)]

loadReferenceReadFailureSucceeds(skillName, referenceName, readOk) ==
    IF skillName \notin DOMAIN skills
    THEN [success |-> FALSE,
          content |-> Str(<<"Error: Skill '", skillName, "' not found. Available skills: ">>
                          \o Join(Tokens(Sorted(DOMAIN skills)), ", "))]
    ELSE IF skills[skillName].references = {}
    THEN [success |-> FALSE,
          content |-> Str(<<"Error: Skill '", skillName, "' has no references.">>)]
    ELSE IF referenceName \notin skills[skillName].references
    THEN [success |-> FALSE,
          content |-> Str(<<"Error: Reference '", referenceName,
                            "' not found in skill '", skillName,
                            "'. Available references: ">>
                          \o Join(Tokens(Sorted(skills[skillName].references)), ", "))]
    ELSE [success |-> TRUE,
          content |-> Str(<<"# Reference: ", referenceName, "\n\n", "(file content)">>)]

\* skills.ts 132-170; readOk: whether fs.readFileSync succeeds
loadReference(skillName, referenceName, readOk) ==
    IF skillName \notin DOMAIN skills
    THEN [success |-> FALSE,
          content |-> Str(<<"Error: Skill '", skillName, "' not found. Available skills: ">>
                          \o Join(Tokens(Sorted(DOMAIN skills)), ", "))]
    ELSE IF skills[skillName].references = {}
    THEN [success |-> FALSE,
          content |-> Str(<<"Error: Skill '", skillName, "' has no references.">>)]
    ELSE IF referenceName \notin skills[skillName].references
    THEN [success |-> FALSE,
          content |-> Str(<<"Error: Reference '", referenceName,
                            "' not found in skill '", skillName,
                            "'. Available references: ">>
                          \o Join(Tokens(Sorted(skills[skillName].references)), ", "))]
    ELSE IF readOk
    THEN [success |-> TRUE,
          content |-> Str(<<"# Reference: ", referenceName, "\n\n", "(file content)">>)]
    ELSE [success |-> FALSE,
          content |-> Str(<<"Error: Failed to read reference '", referenceName,
                            "': ", "Error: ENOENT">>)]

\* skills.ts 204-211
extToLang(ext) ==
    CASE ext = ".py" -> "python"
      [] ext = ".sh" -> "bash"
      [] ext = ".js" -> "javascript"
      [] ext = ".ts" -> "typescript"
      [] OTHER -> "unknown"

\* skills.ts 175-227
loadScript(skillName, scriptName, readOk) ==
    IF skillName \notin DOMAIN skills
    THEN [success |-> FALSE, language |-> "",
          content |-> Str(<<"Error: Skill '", skillName, "' not found. Available skills: ">>
                          \o Join(Tokens(Sorted(DOMAIN skills)), ", "))]
    ELSE IF DOMAIN skills[skillName].scripts = {}
    THEN [success |-> FALSE, language |-> "",
          content |-> Str(<<"Error: Skill '", skillName, "' has no scripts.">>)]
    ELSE IF scriptName \notin DOMAIN skills[skillName].scripts
    THEN [success |-> FALSE, language |-> "",
          content |-> Str(<<"Error: Script '", scriptName,
                            "' not found in skill '", skillName,
                            "'. Available scripts: ">>
                          \o Join(Tokens(Sorted(DOMAIN skills[skillName].scripts)), ", "))]
    ELSE IF readOk
    THEN [success |-> TRUE, language |-> extToLang(skills[skillName].scripts[scriptName]),
          content |-> Str(<<"(file content)">>)]
    ELSE [success |-> FALSE, language |-> "",
          content |-> Str(<<"Error: Failed to read script '", scriptName,
                            "': ", "Error: ENOENT">>)]

\* What callTool resolves to in the loop (tools.ts 257-279): the converted
\* value of a successful attempt, or the text returned after the last attempt
callToolResult(name, ok) ==
    IF ok THEN ConvertRemote([t |-> "object", hasContent |-> TRUE,
                              content |-> <<TextItem("sunny")>>])
    ELSE Exhausted(name, TimeoutError).value

\* The execute function of the tool a request names: the string it returns.
\* ok: whether the tool's backend, or the file read, succeeds.
execute(call, ok) ==
    CASE call.toolName = "load_skill" -> loadSkills(call.args).content
      [] call.toolName = "load_reference" ->
            loadReference(call.args[1], call.args[2], ok).content
      [] call.toolName = "load_script" ->
            LET r == loadScript(call.args[1], call.args[2], ok) IN
            IF r.success
            THEN Str(<<"(fence)", r.language, "\n">> \o r.content.s \o <<"\n", "(fence)">>)
            ELSE r.content
      [] OTHER -> callToolResult(call.toolName, ok)

\* loop.ts 387-398 / 510-521: the assistant message of a tool phase
assistantMessage(id, txt, calls) ==
    Message(id, "assistant", Truthy(txt),
            [k \in DOMAIN calls |-> calls[k].toolCallId], <<>>,
            Chars(txt.s)
            + Sum([k \in DOMAIN calls |->
                    Len(calls[k].toolName) + Chars(calls[k].args) + 2]))

\* loop.ts 403-411 / 526-534: the tool message of a tool phase
toolMessage(id, results) ==
    Message(id, "tool", FALSE, <<>>,
            [k \in DOMAIN results |->
                [toolCallId |-> results[k].toolCallId, result |-> results[k].result]],
            Sum([k \in DOMAIN results |-> Chars(StringOf(results[k].result))]))

toolPhaseMessagesSwapped(msgs, txt, calls, results) ==
    LET id == msgs[Len(msgs)].id IN
    <<toolMessage(id + 1, results), assistantMessage(id + 2, txt, calls)>>

\* loop.ts 385-411 / 508-534: the two messages a tool phase pushes, in order
toolPhaseMessages(msgs, txt, calls, results) ==
    LET id == msgs[Len(msgs)].id IN
    <<assistantMessage(id + 1, txt, calls), toolMessage(id + 2, results)>>

\* loop.ts 402: result.toolResults, which generateText gives in the order of
\* the requests whatever the order the executions finished in
resultToolResults ==
    [k \in DOMAIN toolCalls |->
        CHOOSE r \in Range(toolResults) : r.toolCallId = toolCalls[k].toolCallId]

\* loop.ts 416, 424: the reasoning of the AgentResponse
joinedReasoning(rs) == IF rs # <<>> THEN Str(Join(rs, "\n\n")) ELSE Null

(***************************************************************************)
(* runAgenticLoop (loop.ts 331-426) and runAgenticLoopStream (431-542).    *)
(***************************************************************************)
\* modelLog records the model invocations of the run, in order: what each
\* one answered, or the text String(error) of what it failed with
\* and the names of the tools it requested
Answered(calls) ==
    [kind |-> IF calls = <<>> THEN "text" ELSE "tools", error |-> <<>>,
     tools |-> [k \in DOMAIN calls |-> calls[k].toolName]]
Failed(err) == [kind |-> "failure", error |-> StringOf(err), tools |-> <<>>]

afterOverflowRetry(i) == i

\* loop.ts 372 with 348: continue runs the for loop's iteration++
afterOverflow(i) == i + 1

moreIterationsInclusive(i) == i <= MAX_AGENT_ITERATIONS

\* loop.ts 348 / 445: the for loop's condition
moreIterations(i) == i < MAX_AGENT_ITERATIONS

finalResponseEmpty(txt, rs) ==
    [t |-> "object", content |-> Str(<<>>), reasoning |-> joinedReasoning(rs)]

\* loop.ts 412-418: the AgentResponse of a response without tool calls
\* (result.text || "" is the text, a string)
finalResponse(txt, rs) ==
    [t |-> "object", content |-> txt, reasoning |-> joinedReasoning(rs)]

\* loop.ts 348-366 / 445-473: an iteration starts. Proactive pruning, the tool
\* set is built, the model is invoked.
Dispatch ==
    /\ pc = "loop"
    /\ moreIterations(iteration)
    /\ coreMessages' = pruneContextIfNeeded(coreMessages)
    /\ tools' = buildAISDKTools
    /\ toolCalls' = <<>>
    /\ toolResults' = <<>>
    /\ running' = {}
    /\ response' = [text |-> Str(<<>>), reasoning |-> Undefined]
    /\ pc' = "model"
    /\ UNCHANGED <<toolVars, managerVars, lifeVars, resolveVars, heapVars,
                   loadedSkills, variant, messages, iteration,
                   accumulatedReasoning, result, yielded, modelLog>>

\* loop.ts 421-425 / 541-542: the iterations are used up
MaxIterationsReached ==
    /\ pc = "loop"
    /\ ~moreIterations(iteration)
    /\ pc' = "returned"
    /\ result' = IF variant = "generate"
                 THEN [t |-> "object", content |-> Str(<<>>),
                       reasoning |-> joinedReasoning(accumulatedReasoning)]
                 ELSE Undefined
    /\ UNCHANGED <<toolVars, managerVars, lifeVars, resolveVars, heapVars,
                   loadedSkills, variant, messages,
                   coreMessages, iteration, tools, toolCalls, toolResults, running,
                   response, accumulatedReasoning, yielded, modelLog>>

\* loop.ts 356-366: the model answers generateText; the SDK starts the
\* execute function of every request (maxSteps: 1)
ModelResponds(head, calls) ==
    /\ pc = "model"
    /\ variant = "generate"
    /\ response' = head
    /\ toolCalls' = WithIds(calls, iteration)
    /\ running' = {CallId(iteration, k) : k \in DOMAIN calls}
    /\ modelLog' = Append(modelLog, Answered(calls))
    /\ pc' = "executing"
    /\ UNCHANGED <<toolVars, managerVars, lifeVars, resolveVars, heapVars,
                   loadedSkills, variant, messages,
                   coreMessages, iteration, tools, toolResults,
                   accumulatedReasoning, result, yielded>>

\* loop.ts 367-375: generateText throws
ModelFails(err) ==
    /\ pc = "model"
    /\ variant = "generate"
    /\ modelLog' = Append(modelLog, Failed(err))
    /\ IF isContextOverflowError(err)
       THEN /\ coreMessages' = pruneContext(coreMessages)
            /\ iteration' = afterOverflow(iteration)
            /\ pc' = "loop"
            /\ result' = result
       ELSE /\ pc' = "thrown"
            /\ result' = err
            /\ UNCHANGED <<coreMessages, iteration>>
    /\ UNCHANGED <<toolVars, managerVars, lifeVars, resolveVars, heapVars,
                   loadedSkills, variant, messages, tools,
                   toolCalls, toolResults, running, response,
                   accumulatedReasoning, yielded>>

\* loop.ts 483-498: the text, reasoning and tool-call parts of the stream; the
\* SDK starts the execute function of every request
StreamParts(head, calls) ==
    /\ pc = "model"
    /\ variant = "stream"
    /\ response' = head
    /\ yielded' = yielded
                  \o (IF Truthy(head.text)
                      THEN <<[type |-> "content", content |-> head.text]>> ELSE <<>>)
                  \o (IF Truthy(head.reasoning)
                      THEN <<[type |-> "reasoning", content |-> head.reasoning]>>
                      ELSE <<>>)
    /\ toolCalls' = WithIds(calls, iteration)
    /\ running' = {CallId(iteration, k) : k \in DOMAIN calls}
    /\ modelLog' = Append(modelLog, Answered(calls))
    /\ pc' = "executing"
    /\ UNCHANGED <<toolVars, managerVars, lifeVars, resolveVars, heapVars,
                   loadedSkills, variant, messages,
                   coreMessages, iteration, tools, toolResults,
                   accumulatedReasoning, result>>

\* loop.ts 499-501: the model invocation fails and the stream carries an
\* error part, which the loop only logs
StreamErrorPart(err) ==
    /\ pc = "model"
    /\ variant = "stream"
    /\ modelLog' = Append(modelLog, Failed(err))
    /\ pc' = "executing"
    /\ UNCHANGED <<toolVars, managerVars, lifeVars, resolveVars, heapVars,
                   loadedSkills, variant, messages,
                   coreMessages, iteration, tools, toolCalls, toolResults, running,
                   response, accumulatedReasoning, result, yielded>>

\* loop.ts 197-202, 228-233, 259-262, 275-281, and 494-496: the execute
\* function of one request finishes (the requests of a response run
\* concurrently), and its result is collected
ToolCompletes(k, ok) ==
    /\ pc = "executing"
    /\ k \in DOMAIN toolCalls
    /\ toolCalls[k].toolCallId \in running
    /\ running' = running \ {toolCalls[k].toolCallId}
    /\ loadedSkills' = IF toolCalls[k].toolName = "load_skill"
                       THEN loadedSkills \cup loadSkills(toolCalls[k].args).added
                       ELSE loadedSkills
    /\ toolResults' = Append(toolResults,
                             [toolCallId |-> toolCalls[k].toolCallId,
                              toolName |-> toolCalls[k].toolName,
                              result |-> execute(toolCalls[k], ok)])
    /\ UNCHANGED <<toolVars, managerVars, lifeVars, resolveVars, heapVars,
                   variant, pc, messages, coreMessages,
                   iteration, tools, toolCalls, response, accumulatedReasoning,
                   result, yielded, modelLog>>

\* loop.ts 377-418: generateText has returned
GenerateReturns ==
    /\ pc = "executing"
    /\ variant = "generate"
    /\ running = {}
    /\ accumulatedReasoning' =
            IF Truthy(response.reasoning)
            THEN Append(accumulatedReasoning, response.reasoning.s)
            ELSE accumulatedReasoning
    /\ IF toolCalls # <<>>
       THEN /\ coreMessages' = coreMessages
                    \o toolPhaseMessages(coreMessages, response.text, toolCalls,
                                         resultToolResults)
            /\ iteration' = iteration + 1
            /\ pc' = "loop"
            /\ result' = result
       ELSE /\ pc' = "returned"
            /\ result' = finalResponse(response.text, accumulatedReasoning')
            /\ UNCHANGED <<coreMessages, iteration>>
    /\ UNCHANGED <<toolVars, managerVars, lifeVars, resolveVars, heapVars,
                   loadedSkills, variant, messages, tools,
                   toolCalls, toolResults, running, response, yielded, modelLog>>

\* loop.ts 503-540: the stream has ended
StreamEnds ==
    /\ pc = "executing"
    /\ variant = "stream"
    /\ running = {}
    /\ IF toolCalls # <<>>
       THEN /\ coreMessages' = coreMessages
                    \o toolPhaseMessages(coreMessages, response.text, toolCalls,
                                         toolResults)
            /\ iteration' = iteration + 1
            /\ pc' = "loop"
            /\ result' = result
       ELSE /\ pc' = "returned"
            /\ result' = Undefined
            /\ UNCHANGED <<coreMessages, iteration>>
    /\ UNCHANGED <<toolVars, managerVars, lifeVars, resolveVars, heapVars,
                   loadedSkills, variant, messages, tools,
                   toolCalls, toolResults, running, response,
                   accumulatedReasoning, yielded, modelLog>>

\* A loop invocation on a freshly constructed and initialized agent
\* (agent.ts 34-54, 107-125, 137-157; loop.ts 339-348, 439-445)
Init ==
    /\ InitRegistry
    /\ InitCall
    /\ InitIdleResolve
    /\ InitIdleHeap
    /\ skills \in SkillConfigs
    /\ loadedSkills = {}
    /\ variant \in {"generate", "stream"}
    /\ pc = "loop"
    /\ messages \in Histories
    /\ coreMessages = [i \in DOMAIN messages |-> convertMessage(messages[i], i)]
    /\ iteration = 0
    /\ tools = {}
    /\ toolCalls = <<>>
    /\ toolResults = <<>>
    /\ running = {}
    /\ response = [text |-> Str(<<>>), reasoning |-> Undefined]
    /\ accumulatedReasoning = <<>>
    /\ result = Null
    /\ yielded = <<>>
    /\ modelLog = <<>>

Next ==
    \/ Dispatch
    \/ MaxIterationsReached
    \/ \E head \in ResponseHeads : ModelResponds(head, <<>>)
    \/ \E calls \in CallLists(tools) : ModelResponds(ToolCallHead(calls), calls)
    \/ \E err \in ModelErrors : ModelFails(err)
    \/ \E head \in ResponseHeads : StreamParts(head, <<>>)
    \/ \E calls \in CallLists(tools) : StreamParts(ToolCallHead(calls), calls)
    \/ \E err \in ModelErrors : StreamErrorPart(err)
    \/ \E k \in 1..MaxCalls, ok \in BOOLEAN : ToolCompletes(k, ok)
    \/ GenerateReturns
    \/ StreamEnds

Spec == Init /\ [][Next]_vars

\* Histories that hold a tool call and its tool message (loop.ts 786-791),
\* n messages of so many characters each with the pair at positions at and
\* at + 1, the first message a user message. The id is none the loop gives.
HistoryCallId == CallId(-1, 1)
PairedHistory(n, at, chars) ==
    [i \in 1..n |->
        IF i = at THEN CallerToolCalls(<<HistoryCallId>>, chars)
        ELSE IF i = at + 1 THEN CallerToolResult(HistoryCallId, chars)
        ELSE CallerMessage(IF i = 1 THEN "user"
                           ELSE IF i < at THEN (IF i % 2 = 0 THEN "assistant" ELSE "user")
                           ELSE IF (i - at) % 2 = 0 THEN "assistant" ELSE "user",
                           chars)]
PairedHistories ==
    { PairedHistory(n, at, chars) : n \in {11, 13}, at \in {2, 3, 4}, chars \in {10, 40000} }

\* A loop invocation on a history that holds tool calls
InitPaired ==
    /\ InitRegistry
    /\ InitCall
    /\ InitIdleResolve
    /\ InitIdleHeap
    /\ skills = TwoSkills
    /\ loadedSkills = {}
    /\ variant \in {"generate", "stream"}
    /\ pc = "loop"
    /\ messages \in PairedHistories
    /\ coreMessages = [i \in DOMAIN messages |-> convertMessage(messages[i], i)]
    /\ iteration = 0
    /\ tools = {}
    /\ toolCalls = <<>>
    /\ toolResults = <<>>
    /\ running = {}
    /\ response = [text |-> Str(<<>>), reasoning |-> Undefined]
    /\ accumulatedReasoning = <<>>
    /\ result = Null
    /\ yielded = <<>>
    /\ modelLog = <<>>

SpecPaired == InitPaired /\ [][Next]_vars

\* The loop under the scheduling of the runtime, with a model that produces
\* some outcome for every invocation and tool executions that finish (callTool
\* returns, tools.ts 257-279): code that can run does run (loop.ts 348-351,
\* 377-426, 503-542), an awaited generateText or stream settles (loop.ts
\* 356-375, 483-502), and an execute function that was started finishes
\* (loop.ts 197-202). Which outcome the model produces is not constrained.
ModelSettles ==
    \/ \E head \in ResponseHeads : ModelResponds(head, <<>>)
    \/ \E calls \in CallLists(tools) : ModelResponds(ToolCallHead(calls), calls)
    \/ \E err \in ModelErrors : ModelFails(err)
    \/ \E head \in ResponseHeads : StreamParts(head, <<>>)
    \/ \E calls \in CallLists(tools) : StreamParts(ToolCallHead(calls), calls)
    \/ \E err \in ModelErrors : StreamErrorPart(err)

FairLoop ==
    /\ WF_vars(Dispatch)
    /\ WF_vars(MaxIterationsReached)
    /\ WF_vars(ModelSettles)
    /\ WF_vars(\E k \in 1..MaxCalls, ok \in BOOLEAN : ToolCompletes(k, ok))
    /\ WF_vars(GenerateReturns)
    /\ WF_vars(StreamEnds)

SpecFair == Init /\ [][Next]_vars /\ FairLoop

(***************************************************************************)
(* Properties of the agentic loop.                                         *)
(***************************************************************************)
\* The caller's history as the loop starts with it (loop.ts 343)
InitialMessages == [i \in DOMAIN messages |-> convertMessage(messages[i], i)]

Kinds == [i \in DOMAIN modelLog |-> modelLog[i].kind]
Invocations == Len(modelLog)
AlwaysAnswered(kind) == \A i \in DOMAIN modelLog : modelLog[i].kind = kind

\* A failure text that names a context overflow: it holds one of the four
\* markers, in whatever case
OverflowText(text) ==
    \E tok \in Range(text) : ToLower(tok) \in {"context", "token", "too long", "maximum"}

\* C5: with a model that never emits tool calls the loop ends in its first
\* iteration: one model invocation, no message in the conversation buffer
\* but the caller's, no tool executed, no skill loaded, never another iteration;
\* what the non-streaming loop returns has the response's text as content.
C5_TextEndsFirstIteration ==
    (Invocations > 0 /\ AlwaysAnswered("text")) =>
        /\ Invocations = 1
        /\ iteration = 0
        /\ pc \in {"executing", "returned"}
        /\ Range(coreMessages) \subseteq Range(InitialMessages)
        /\ toolCalls = <<>> /\ toolResults = <<>> /\ running = {}
        /\ loadedSkills = {}
        /\ (pc = "returned" /\ variant = "generate") =>
                /\ result.t = "object"
                /\ result.content = response.text

C5_Witness ==
    /\ pc = "returned" /\ variant = "generate"
    /\ Kinds = <<"text">>
    /\ Len(messages) > 1
    /\ result.content = Str(<<"answer">>)

\* C6: with a model that emits a tool call on every invocation the loop makes
\* exactly MAX_AGENT_ITERATIONS model invocations and then returns normally:
\* it never makes more, it does not raise, and it has returned only after
\* that many.
C6_ToolsEveryTimeStopsAtMax ==
    AlwaysAnswered("tools") =>
        /\ Invocations <= MAX_AGENT_ITERATIONS
        /\ pc # "thrown"
        /\ (pc = "loop" /\ Invocations = MAX_AGENT_ITERATIONS) =>
                iteration = MAX_AGENT_ITERATIONS
        /\ pc = "returned" =>
                /\ Invocations = MAX_AGENT_ITERATIONS
                /\ iteration = MAX_AGENT_ITERATIONS
                /\ variant = "generate" => result.t = "object"

C6_Witness ==
    /\ pc = "returned"
    /\ Invocations = MAX_AGENT_ITERATIONS
    /\ AlwaysAnswered("tools")
    /\ Len(coreMessages[Len(coreMessages)].results) > 1

\* The step in which a model invocation of the non-streaming loop fails
ModelFailure ==
    /\ variant = "generate"
    /\ Invocations' = Invocations + 1
    /\ modelLog'[Invocations'].kind = "failure"
OverflowFailure == ModelFailure /\ OverflowText(modelLog'[Invocations'].error)

Ids(msgs) == [i \in DOMAIN msgs |-> msgs[i].id]
Increasing(ns) == \A i, j \in DOMAIN ns : i < j => ns[i] < ns[j]

\* new is old pruned: old itself when it has at most 12 messages; otherwise
\* messages of old in their order, the last ten of them and the first user
\* message among them, and no more than eleven
PrunedFrom(old, new) ==
    IF Len(old) <= 12 THEN new = old
    ELSE /\ Range(new) \subseteq Range(old)
         /\ Increasing(Ids(new))
         /\ Len(new) <= 11
         /\ \A i \in (Len(old) - 9)..Len(old) : old[i] \in Range(new)
         /\ \A i \in DOMAIN old :
                (old[i].role = "user" /\ \A j \in 1..(i - 1) : old[j].role # "user")
                    => old[i] \in Range(new)

\* C7 as claimed: a context-overflow failure makes the non-streaming loop
\* prune the conversation and retry the same iteration, the iteration counter
\* not advancing.
C7_OverflowRetryKeepsCounter ==
    [][OverflowFailure =>
            /\ PrunedFrom(coreMessages, coreMessages')
            /\ pc' = "loop"
            /\ iteration' = iteration]_vars

\* C7 amended: a context-overflow failure makes the non-streaming loop prune
\* the conversation and go on to the next iteration, the iteration counter
\* advancing by one: the failed invocation has used up one of the
\* MAX_AGENT_ITERATIONS iterations. Nothing is raised and nothing returned
\* by that step.
C7_OverflowRetryAdvancesCounter ==
    [][OverflowFailure =>
            /\ PrunedFrom(coreMessages, coreMessages')
            /\ pc' = "loop"
            /\ iteration' = iteration + 1
            /\ result' = result]_vars

C7_Witness ==
    /\ variant = "generate"
    /\ pc = "loop"
    /\ Invocations = 1
    /\ modelLog[1].kind = "failure" /\ OverflowText(modelLog[1].error)
    /\ iteration = 1
    /\ Len(messages) = 13
    /\ estimateContextSize(InitialMessages) < CONTEXT_CHAR_LIMIT
    /\ Len(coreMessages) = 11

\* C8: in the non-streaming loop a model-invocation failure that is not a
\* context overflow is the last thing the loop does: it is the last model
\* invocation, the loop has raised that error, no tool call of that
\* iteration exists or runs, and nothing is returned.
C8_OtherFailureIsFatal ==
    \A i \in DOMAIN modelLog :
        (variant = "generate" /\ modelLog[i].kind = "failure"
         /\ ~OverflowText(modelLog[i].error)) =>
            /\ i = Invocations
            /\ pc = "thrown"
            /\ result.t = "Error"
            /\ StringOf(result) = modelLog[i].error
            /\ toolCalls = <<>> /\ toolResults = <<>> /\ running = {}

C8_Witness ==
    /\ variant = "generate"
    /\ pc = "thrown"
    /\ Kinds = <<"tools", "failure">>
    /\ result = Err(<<"rate limit reached">>)

ResultIds(msg) == [k \in DOMAIN msg.results |-> msg.results[k].toolCallId]

\* C9: in both variants the tool-call requests of an iteration are all
\* answered before the next model invocation: the assistant message that
\* holds the requests is followed by a tool message with one result for each
\* request, the same call ids in the order of the requests, and every
\* result a string, also that of a failed execution.
C9_OneResultPerRequestInOrder ==
    \A i \in DOMAIN coreMessages :
        coreMessages[i].calls # <<>> =>
            /\ i < Len(coreMessages)
            /\ coreMessages[i + 1].role = "tool"
            /\ ResultIds(coreMessages[i + 1]) = coreMessages[i].calls
            /\ \A k \in DOMAIN coreMessages[i + 1].results :
                    IsString(coreMessages[i + 1].results[k].result)

\* The step that ends the tool phase of an iteration
ToolPhaseEnds == pc = "executing" /\ toolCalls # <<>> /\ pc' # "executing"

\* C10: the step that ends a tool phase appends exactly two messages to the
\* conversation buffer, first an assistant message with the response's text
\* (if it has one) and all the requests, then a tool message with their
\* results; no other step, and so no iteration that ends the loop, puts a
\* message into the buffer.
C10_ToolPhaseAppendsTwo ==
    [][IF ToolPhaseEnds
       THEN /\ Len(coreMessages') = Len(coreMessages) + 2
            /\ SubSeq(coreMessages', 1, Len(coreMessages)) = coreMessages
            /\ LET a == coreMessages'[Len(coreMessages) + 1]
                   r == coreMessages'[Len(coreMessages) + 2]
               IN /\ a.role = "assistant"
                  /\ a.hasText = (response.text.s # <<>>)
                  /\ a.calls = [k \in DOMAIN toolCalls |-> toolCalls[k].toolCallId]
                  /\ a.results = <<>>
                  /\ r.role = "tool"
                  /\ r.calls = <<>>
                  /\ r.hasText = FALSE
                  /\ Range(r.results)
                        = {[toolCallId |-> toolResults[k].toolCallId,
                            result |-> toolResults[k].result] : k \in DOMAIN toolResults}
                  /\ Len(r.results) = Len(toolCalls)
       ELSE Range(coreMessages') \subseteq Range(coreMessages)]_vars

C10_Witness ==
    /\ pc = "loop"
    /\ iteration = 2
    /\ Kinds = <<"tools", "tools">>
    /\ Len(coreMessages) = Len(messages) + 4
    /\ coreMessages[Len(coreMessages) - 1].role = "assistant"
    /\ coreMessages[Len(coreMessages) - 1].hasText
    /\ Len(coreMessages[Len(coreMessages)].results) = 2

(***************************************************************************)
(* Pruning on its own: pruneContext and pruneContextIfNeeded applied to    *)
(* message lists of every length up to MaxMessages, with the first user    *)
(* message at every position (or absent), small or large.                  *)
(***************************************************************************)
PruneInputs ==
    {History(n, f, chars) : n \in 0..MaxMessages, f \in 1..(MaxMessages + 1),
                            chars \in {10, 40000}}

\* loop.ts 371: coreMessages = pruneContext(coreMessages)
PruneReactive ==
    /\ pc = "input"
    /\ coreMessages' = pruneContext(coreMessages)
    /\ pc' = "pruned"
    /\ UNCHANGED <<toolVars, managerVars, lifeVars, resolveVars, heapVars,
                   loadedSkills, variant, messages, iteration,
                   tools, toolCalls, toolResults, running, response,
                   accumulatedReasoning, result, yielded, modelLog>>

\* loop.ts 350: coreMessages = pruneContextIfNeeded(coreMessages)
PruneProactive ==
    /\ pc = "input"
    /\ coreMessages' = pruneContextIfNeeded(coreMessages)
    /\ pc' = "prunedIfNeeded"
    /\ UNCHANGED <<toolVars, managerVars, lifeVars, resolveVars, heapVars,
                   loadedSkills, variant, messages, iteration,
                   tools, toolCalls, toolResults, running, response,
                   accumulatedReasoning, result, yielded, modelLog>>

InitPrune ==
    /\ InitRegistry
    /\ InitCall
    /\ InitIdleResolve
    /\ InitIdleHeap
    /\ skills = NoSkills
    /\ loadedSkills = {}
    /\ variant = "generate"
    /\ pc = "input"
    /\ messages \in PruneInputs
    /\ coreMessages = InitialMessages
    /\ iteration = 0
    /\ tools = {}
    /\ toolCalls = <<>>
    /\ toolResults = <<>>
    /\ running = {}
    /\ response = [text |-> Str(<<>>), reasoning |-> Undefined]
    /\ accumulatedReasoning = <<>>
    /\ result = Null
    /\ yielded = <<>>
    /\ modelLog = <<>>

\* loop.ts 371 in a later iteration: pruneContext applied to a buffer that
\* pruneContext returned
PruneAgain ==
    /\ pc = "pruned"
    /\ coreMessages' = pruneContext(coreMessages)
    /\ pc' = "prunedAgain"
    /\ UNCHANGED <<toolVars, managerVars, lifeVars, resolveVars, heapVars,
                   loadedSkills, variant, messages, iteration,
                   tools, toolCalls, toolResults, running, response,
                   accumulatedReasoning, result, yielded, modelLog>>

NextPrune == PruneReactive \/ PruneProactive \/ PruneAgain

SpecPrune == InitPrune /\ [][NextPrune]_vars

Pruned == pc \in {"pruned", "prunedIfNeeded"}
OverLimit == estimateContextSize(InitialMessages) >= CONTEXT_CHAR_LIMIT

\* C11: a conversation of 12 or fewer messages comes back from pruneContext
\* and from pruneContextIfNeeded as it went in, the same messages in the
\* same order, whatever its estimated size.
C11_TwelveOrFewerNeverPruned ==
    (Pruned /\ Len(messages) <= 12) => coreMessages = InitialMessages

C11_Witness ==
    /\ pc = "prunedIfNeeded"
    /\ Len(messages) = 12
    /\ OverLimit
    /\ coreMessages = InitialMessages

\* The position of the first user-role message of the input, as a set
FirstUser ==
    {i \in DOMAIN messages :
        messages[i].role = "user" /\ \A j \in 1..(i - 1) : messages[j].role # "user"}
LastTen == {i \in DOMAIN messages : i > Len(messages) - 10}

\* C12: of a conversation of 13 or more messages whose estimated size is at
\* or over the limit, pruneContextIfNeeded returns exactly the first
\* user-role message and the last 10 messages, each once, in the order they
\* have in the conversation.
C12_PrunedSetInOrder ==
    (pc = "prunedIfNeeded" /\ Len(messages) >= 13 /\ OverLimit) =>
        /\ Range(coreMessages) = {InitialMessages[i] : i \in FirstUser \cup LastTen}
        /\ Len(coreMessages) = Cardinality(FirstUser \cup LastTen)
        /\ Increasing(Ids(coreMessages))

(***************************************************************************)
(* Several loop invocations on one agent: ChatAgent.run and                *)
(* ChatAgent.stream hand the agent's one SkillManager to every invocation. *)
(***************************************************************************)
RunWithNoSkillLoaded ==
    /\ pc \in {"returned", "thrown"}
    /\ variant' \in {"generate", "stream"}
    /\ messages' \in Histories
    /\ coreMessages' = [i \in DOMAIN messages' |-> convertMessage(messages'[i], i)]
    /\ pc' = "loop"
    /\ iteration' = 0
    /\ tools' = {}
    /\ toolCalls' = <<>>
    /\ toolResults' = <<>>
    /\ running' = {}
    /\ response' = [text |-> Str(<<>>), reasoning |-> Undefined]
    /\ accumulatedReasoning' = <<>>
    /\ result' = Null
    /\ yielded' = <<>>
    /\ modelLog' = <<>>
    /\ loadedSkills' = {}
    /\ UNCHANGED <<toolVars, managerVars, lifeVars, resolveVars, heapVars>>

\* agent.ts 107-125 / 137-157 with loop.ts 339-348 / 439-445: after an
\* invocation has ended the caller starts another one on the same agent
Run ==
    /\ pc \in {"returned", "thrown"}
    /\ variant' \in {"generate", "stream"}
    /\ messages' \in Histories
    /\ coreMessages' = [i \in DOMAIN messages' |-> convertMessage(messages'[i], i)]
    /\ pc' = "loop"
    /\ iteration' = 0
    /\ tools' = {}
    /\ toolCalls' = <<>>
    /\ toolResults' = <<>>
    /\ running' = {}
    /\ response' = [text |-> Str(<<>>), reasoning |-> Undefined]
    /\ accumulatedReasoning' = <<>>
    /\ result' = Null
    /\ yielded' = <<>>
    /\ modelLog' = <<>>
    /\ UNCHANGED <<toolVars, managerVars, lifeVars, resolveVars, heapVars, loadedSkills>>

NextAgent == Next \/ Run

SpecAgent == Init /\ [][NextAgent]_vars

\* No load_skill call has been made in this invocation
NoLoadSkillYet ==
    \A i \in DOMAIN modelLog : "load_skill" \notin Range(modelLog[i].tools)

\* C13: in every loop invocation on an agent, the first or a later one, the
\* tool set given to the model at an iteration before the invocation's first
\* load_skill call is {load_skill} when skills are configured (and empty when
\* none is): no registry tool, no load_reference, no load_script.
C13_OnlyLoadSkillBeforeLoading ==
    (pc = "model" /\ NoLoadSkillYet) =>
        tools = (IF DOMAIN skills # {} THEN {"load_skill"} ELSE {})

\* The tool set the claim gives for a set of loaded skills
RegistryNames == {toolInfos[i].name : i \in DOMAIN toolInfos}
RequiredBy(loaded) == {t \in RegistryNames : \E n \in loaded : t \in Range(skills[n].tools)}
ExposedFor(loaded) ==
    {"load_skill"}
    \cup (IF \E n \in loaded : skills[n].tools # <<>>
          THEN RequiredBy(loaded) ELSE RegistryNames)
    \cup (IF \E n \in loaded : skills[n].references # {} THEN {"load_reference"} ELSE {})
    \cup (IF \E n \in loaded : DOMAIN skills[n].scripts # {} THEN {"load_script"} ELSE {})

\* C14: at every iteration that starts with a skill loaded the model is given
\* load_skill, the registry tools a loaded skill requires (all registry tools
\* when no loaded skill requires any), load_reference iff a loaded skill has
\* references and load_script iff a loaded skill has scripts.
C14_ExposedToolsOfLoadedSkills ==
    (pc = "model" /\ loadedSkills # {}) => tools = ExposedFor(loadedSkills)

C14_Witness ==
    /\ pc = "model"
    /\ iteration = 1
    /\ Len(modelLog) = 1
    /\ modelLog[1].tools = <<"load_skill">>
    /\ loadedSkills = {"weather"}
    /\ tools = {"load_skill", "remote_tool", "load_reference"}

(***************************************************************************)
(* The SkillManager on its own: loadSkills, loadReference and loadScript   *)
(* called with known and unknown names, one call after another.            *)
(***************************************************************************)
SkillNames == {"weather", "math", "nope", "zzz"}
NameLists == UNION {[1..k -> SkillNames] : k \in 1..MaxNames}
ItemNames == {"guide", "calc", "plot", "nope"}

ManagerCall(name, args, readOk) ==
    <<[toolCallId |-> CallId(0, 1), toolName |-> name, args |-> args, readOk |-> readOk]>>

\* skills.ts 60-127
LoadSkills(names) ==
    /\ pc = "ready"
    /\ toolCalls' = ManagerCall("load_skill", names, TRUE)
    /\ loadedSkills' = loadedSkills \cup loadSkills(names).added
    /\ result' = [t |-> "object", content |-> loadSkills(names).content,
                  language |-> "", success |-> loadSkills(names).success]
    /\ pc' = "done"
    /\ UNCHANGED <<toolVars, managerVars, lifeVars, resolveVars, heapVars,
                   variant, messages, coreMessages, iteration,
                   tools, toolResults, running, response, accumulatedReasoning,
                   yielded, modelLog>>

\* skills.ts 132-170
LoadReference(skillName, referenceName, readOk) ==
    /\ pc = "ready"
    /\ toolCalls' = ManagerCall("load_reference", <<skillName, referenceName>>, readOk)
    /\ result' = [t |-> "object",
                  content |-> loadReference(skillName, referenceName, readOk).content,
                  language |-> "",
                  success |-> loadReference(skillName, referenceName, readOk).success]
    /\ pc' = "done"
    /\ UNCHANGED <<toolVars, managerVars, lifeVars, resolveVars, heapVars,
                   loadedSkills, variant, messages, coreMessages,
                   iteration, tools, toolResults, running, response,
                   accumulatedReasoning, yielded, modelLog>>

\* skills.ts 175-227
LoadScript(skillName, scriptName, readOk) ==
    /\ pc = "ready"
    /\ toolCalls' = ManagerCall("load_script", <<skillName, scriptName>>, readOk)
    /\ result' = [t |-> "object",
                  content |-> loadScript(skillName, scriptName, readOk).content,
                  language |-> loadScript(skillName, scriptName, readOk).language,
                  success |-> loadScript(skillName, scriptName, readOk).success]
    /\ pc' = "done"
    /\ UNCHANGED <<toolVars, managerVars, lifeVars, resolveVars, heapVars,
                   loadedSkills, variant, messages, coreMessages,
                   iteration, tools, toolResults, running, response,
                   accumulatedReasoning, yielded, modelLog>>

\* The caller has the result and is ready for its next call
NextCall ==
    /\ pc = "done"
    /\ pc' = "ready"
    /\ toolCalls' = <<>>
    /\ result' = Null
    /\ UNCHANGED <<toolVars, managerVars, lifeVars, resolveVars, heapVars,
                   loadedSkills, variant, messages, coreMessages,
                   iteration, tools, toolResults, running, response,
                   accumulatedReasoning, yielded, modelLog>>

\* skills.ts 19-22: a SkillManager as constructed
InitSkills ==
    /\ InitRegistry
    /\ InitCall
    /\ InitIdleResolve
    /\ InitIdleHeap
    /\ skills \in SkillConfigs
    /\ loadedSkills = {}
    /\ variant = "generate"
    /\ pc = "ready"
    /\ messages = <<>>
    /\ coreMessages = <<>>
    /\ iteration = 0
    /\ tools = {}
    /\ toolCalls = <<>>
    /\ toolResults = <<>>
    /\ running = {}
    /\ response = [text |-> Str(<<>>), reasoning |-> Undefined]
    /\ accumulatedReasoning = <<>>
    /\ result = Null
    /\ yielded = <<>>
    /\ modelLog = <<>>

NextSkills ==
    \/ \E names \in NameLists : LoadSkills(names)
    \/ \E s \in SkillNames, r \in ItemNames, ok \in BOOLEAN : LoadReference(s, r, ok)
    \/ \E s \in SkillNames, r \in ItemNames, ok \in BOOLEAN : LoadScript(s, r, ok)
    \/ NextCall

SpecSkills == InitSkills /\ [][NextSkills]_vars

\* sub occurs in seq as a run of consecutive tokens
Occurs(sub, seq) ==
    \E i \in 0..(Len(seq) - Len(sub)) : SubSeq(seq, i + 1, i + Len(sub)) = sub

\* The step that is a call of the SkillManager operation name
ManagerCallStep(name) ==
    pc = "ready" /\ pc' = "done" /\ toolCalls'[1].toolName = name
CalledNames == Range(toolCalls'[1].args)
Configured == DOMAIN skills

\* The configured skill names, sorted and separated by ", "
SortedListing ==
    IF Configured = {"math", "weather"} THEN <<"math", ", ", "weather">> ELSE <<>>

\* C15: loadSkills called with unknown names only returns, with success false
\* and the loaded set as it was, a string that for every name holds an error
\* line listing all configured skill names, sorted and separated by ", ".
C15_UnknownSkillsOnly ==
    [][(ManagerCallStep("load_skill") /\ CalledNames \cap Configured = {}) =>
            /\ result'.t = "object"
            /\ IsString(result'.content)
            /\ result'.success = FALSE
            /\ loadedSkills' = loadedSkills
            /\ \A n \in CalledNames :
                    Occurs(<<"Error: Skill '", n, "' not found. Available skills: ">>
                           \o SortedListing, result'.content.s)]_vars

C15_Witness ==
    /\ pc = "done"
    /\ toolCalls[1].toolName = "load_skill"
    /\ toolCalls[1].args = <<"nope", "zzz">>
    /\ skills = TwoSkills
    /\ loadedSkills = {"weather"}
    /\ result.success = FALSE

\* C16: loadSkills called with known and unknown names together adds every
\* known name and no other to the loaded set, and returns one string that
\* holds an error line for every unknown name and the content of every
\* known skill, in whatever order the names come.
C16_MixedNamesLoadKnown ==
    [][(/\ ManagerCallStep("load_skill")
        /\ CalledNames \cap Configured # {}
        /\ CalledNames \ Configured # {}) =>
            /\ result'.t = "object"
            /\ IsString(result'.content)
            /\ loadedSkills' = loadedSkills \cup (CalledNames \cap Configured)
            /\ \A n \in CalledNames \ Configured :
                    Occurs(<<"Error: Skill '", n, "' not found. Available skills: ">>,
                           result'.content.s)
            /\ \A n \in CalledNames \cap Configured :
                    Occurs(<<"# Skill: ", n, "\n\n", skills[n].content>>,
                           result'.content.s)]_vars

C16_Witness ==
    /\ pc = "done"
    /\ toolCalls[1].toolName = "load_skill"
    /\ toolCalls[1].args = <<"nope", "math">>
    /\ loadedSkills = {"math"}
    /\ result.success

\* What the claim makes of a load_reference or load_script call: the named
\* skill exists, it has documents of the kind, the item is one of them, and
\* the read succeeds
Documents(call) ==
    IF call.args[1] \notin Configured THEN {}
    ELSE IF call.toolName = "load_reference" THEN skills[call.args[1]].references
    ELSE DOMAIN skills[call.args[1]].scripts
Loadable(call) == call.args[2] \in Documents(call) /\ call.readOk
LanguageOf(ext) ==
    IF ext = ".py" THEN "python" ELSE IF ext = ".sh" THEN "bash"
    ELSE IF ext = ".js" THEN "javascript" ELSE IF ext = ".ts" THEN "typescript"
    ELSE "unknown"

\* C17: loadReference and loadScript always return: a string with success
\* false that starts as an error message when the skill is unknown, has no
\* such documents, does not have the item, or the read fails; otherwise the
\* document with success true, for a script with the language of its file
\* extension.
C17_ReferenceAndScriptNeverThrow ==
    (pc = "done" /\ toolCalls[1].toolName \in {"load_reference", "load_script"}) =>
        /\ result.t = "object"
        /\ IsString(result.content)
        /\ result.success = Loadable(toolCalls[1])
        /\ ~Loadable(toolCalls[1]) =>
                Head(result.content.s) \in
                    {"Error: Skill '", "Error: Reference '", "Error: Script '",
                     "Error: Failed to read reference '", "Error: Failed to read script '"}
        /\ Loadable(toolCalls[1]) =>
                /\ Contains(result.content, "(file content)")
                /\ toolCalls[1].toolName = "load_script" =>
                        result.language =
                            LanguageOf(skills[toolCalls[1].args[1]].scripts[toolCalls[1].args[2]])

C17_Witness ==
    /\ pc = "done"
    /\ toolCalls[1].toolName = "load_reference"
    /\ toolCalls[1].args = <<"weather", "guide">>
    /\ ~toolCalls[1].readOk
    /\ result.success = FALSE

(***************************************************************************)
(* Initialization and shutdown: ToolManager.initialize and close           *)
(* (tools.ts 77-220, 348-357) under ChatAgent.initialize, run, stream and  *)
(* close (agent.ts 48-54, 107-110, 171-174), called by callers whose calls *)
(* can overlap at every await.                                             *)
(***************************************************************************)
\* Sessions the model opens before it stops connecting
MaxSessions == 4

\* What the configured servers and modules offer
ServerTools(serverName) ==
    CASE serverName = "alpha" -> <<"remote_tool">>
      [] serverName = "beta" -> <<"remote_tool", "search">>
      [] OTHER -> <<"remote_tool">>
ModuleTools(toolPath) ==
    CASE toolPath = "tools.js" -> <<"search", "local_tool">>
      [] OTHER -> <<"local_tool">>

Alpha(hasCommand) == [name |-> "alpha", transport |-> "stdio", target |-> hasCommand]
Beta(transport, hasUrl) == [name |-> "beta", transport |-> transport, target |-> hasUrl]
ServerConfigLists ==
    { <<Alpha(TRUE), Beta("http", TRUE)>>,
      <<Alpha(FALSE), Beta("streamable_http", TRUE)>>,
      <<Alpha(TRUE), Beta("websocket", TRUE)>>,
      <<Alpha(TRUE), Beta("http", FALSE)>> }

\* What the servers and modules do during one initialize(): each server
\* connects and lists its tools ("up"), refuses the connection or fails the
\* handshake ("no-connect"), or fails listTools ("no-list"); each module
\* imports or not
Plans ==
    [server : [DOMAIN mcpConfigs -> {"up", "no-connect", "no-list"}],
     module : [DOMAIN localToolPaths -> BOOLEAN]]

\* tools.ts 81-88: the two for loops of initialize(), as one position k
At(k) ==
    [pc |-> IF k <= Len(mcpConfigs) THEN "servers"
            ELSE IF k <= Len(mcpConfigs) + Len(localToolPaths) THEN "locals"
            ELSE "finish",
     pos |-> k]

uncaught(k) == [pc |-> "thrown", pos |-> k]

\* tools.ts 102-104, 217-219: the failure is caught and logged, and the for
\* loop goes on
caught(k) == At(k + 1)

Goto(c, to) == initCalls' = [initCalls EXCEPT ![c].pc = to.pc, ![c].pos = to.pos]

\* Map.prototype.set: a new key goes to the end, a known key keeps its place
MapSet(m, name, client) ==
    IF \E i \in DOMAIN m : m[i].name = name
    THEN [i \in DOMAIN m |-> IF m[i].name = name
                              THEN [name |-> name, client |-> client] ELSE m[i]]
    ELSE Append(m, [name |-> name, client |-> client])

\* tools.ts 95-99: the transports connectMCPServer knows
KnownTransports == {"stdio", "streamable_http", "http"}

NoCallerIn(stages) == \A c \in Callers : initCalls[c].pc \notin stages
ClosingStages == {"closing", "closed"}

\* agent.ts 48-51 (also from run and stream, 108-110, 140-142) with
\* tools.ts 77-78: a caller calls initialize() on an agent that is not
\* initialized, while no close() is in progress
Initialize(c, plan) ==
    /\ initCalls[c].pc = "idle"
    /\ ~agentInitialized
    /\ NoCallerIn(ClosingStages)
    /\ initCalls' = [initCalls EXCEPT ![c] =
            IF initialized
            THEN [pc |-> "validate", pos |-> 0, plan |-> Idle.plan]
            ELSE [pc |-> At(1).pc, pos |-> 1, plan |-> plan]]
    /\ UNCHANGED <<mcpClients, mcpTools, localTools, callVars, managerVars,
                   loopVars, resolveVars, heapVars,
                   mcpConfigs, localToolPaths, initialized, agentInitialized, sessions>>

\* tools.ts 93-105 with 107-134 / 136-163, up to client.connect
Connect(c) ==
    LET k == initCalls[c].pos
        config == mcpConfigs[k]
    IN /\ initCalls[c].pc = "servers"
       /\ Len(sessions) < MaxSessions
       /\ IF /\ config.transport \in KnownTransports
             /\ config.target
             /\ initCalls[c].plan.server[k] # "no-connect"
          THEN /\ sessions' = Append(sessions, [server |-> config.name, closes |-> 0])
               /\ mcpClients' = MapSet(mcpClients, config.name, Len(sessions) + 1)
               /\ Goto(c, [pc |-> "discover", pos |-> k])
          ELSE /\ Goto(c, IF config.transport \in KnownTransports THEN caught(k)
                           ELSE At(k + 1))
               /\ UNCHANGED <<sessions, mcpClients>>
       /\ UNCHANGED <<mcpTools, localTools, callVars, managerVars, loopVars, resolveVars, heapVars,
                      mcpConfigs,
                      localToolPaths, initialized, agentInitialized>>

\* tools.ts 165-182, and the catch of 102-104 when listTools fails
Discover(c) ==
    LET k == initCalls[c].pos
        serverName == mcpConfigs[k].name
        offered == ServerTools(serverName)
    IN /\ initCalls[c].pc = "discover"
       /\ IF initCalls[c].plan.server[k] = "up"
          THEN /\ mcpTools' = [n \in DOMAIN mcpTools \cup Range(offered) |->
                                  IF n \in Range(offered) THEN serverName ELSE mcpTools[n]]
               /\ toolInfos' = toolInfos \o
                    [i \in DOMAIN offered |->
                        [name |-> offered[i], source |-> McpSource(serverName)]]
               /\ Goto(c, At(k + 1))
          ELSE /\ Goto(c, caught(k))
               /\ UNCHANGED <<mcpTools, toolInfos>>
       /\ UNCHANGED <<mcpClients, localTools, callVars, skills, loopVars, resolveVars, heapVars,
                      mcpConfigs,
                      localToolPaths, initialized, agentInitialized, sessions>>

\* tools.ts 184-220
LoadLocal(c) ==
    LET k == initCalls[c].pos
        j == k - Len(mcpConfigs)
        exported == ModuleTools(localToolPaths[j])
    IN /\ initCalls[c].pc = "locals"
       /\ IF initCalls[c].plan.module[j]
          THEN /\ localTools' = localTools \cup Range(exported)
               /\ toolInfos' = toolInfos \o
                    [i \in DOMAIN exported |->
                        [name |-> exported[i], source |-> LocalSource]]
               /\ Goto(c, At(k + 1))
          ELSE /\ Goto(c, caught(k))
               /\ UNCHANGED <<localTools, toolInfos>>
       /\ UNCHANGED <<mcpClients, mcpTools, callVars, skills, loopVars, resolveVars, heapVars,
                      mcpConfigs,
                      localToolPaths, initialized, agentInitialized, sessions>>

\* tools.ts 90: this.initialized = true, and initialize() returns
InitDone(c) ==
    /\ initCalls[c].pc = "finish"
    /\ initialized' = TRUE
    /\ Goto(c, [pc |-> "validate", pos |-> 0])
    /\ UNCHANGED <<mcpClients, mcpTools, localTools, callVars, managerVars,
                   loopVars, resolveVars, heapVars,
                   mcpConfigs, localToolPaths, agentInitialized, sessions>>

\* agent.ts 52-53: validateSkillTools(); this.initialized = true
AgentInitDone(c) ==
    /\ initCalls[c].pc = "validate"
    /\ agentInitialized' = TRUE
    /\ initCalls' = [initCalls EXCEPT ![c] = Idle]
    /\ UNCHANGED <<mcpClients, mcpTools, localTools, callVars, managerVars,
                   loopVars, resolveVars, heapVars,
                   mcpConfigs, localToolPaths, initialized, sessions>>

\* agent.ts 171-172 with tools.ts 348: a caller calls close() while no other
\* call of initialize() or close() is in progress
Close(c) ==
    /\ \A d \in Callers : initCalls[d].pc = "idle"
    /\ Goto(c, [pc |-> "closing", pos |-> 1])
    /\ UNCHANGED <<toolVars, managerVars, loopVars, resolveVars, heapVars,
                   mcpConfigs, localToolPaths,
                   initialized, agentInitialized, sessions>>

\* tools.ts 349-351: await client.close() for the next value of mcpClients
CloseClient(c) ==
    LET k == initCalls[c].pos
    IN /\ initCalls[c].pc = "closing"
       /\ k <= Len(mcpClients)
       /\ sessions' = [sessions EXCEPT ![mcpClients[k].client].closes = @ + 1]
       /\ Goto(c, [pc |-> "closing", pos |-> k + 1])
       /\ UNCHANGED <<toolVars, managerVars, loopVars, resolveVars, heapVars,
                      mcpConfigs, localToolPaths,
                      initialized, agentInitialized>>

\* tools.ts 349-351 with agent.ts 172: client.close() of the next value of
\* mcpClients raises. Nothing catches it: ToolManager.close() and
\* ChatAgent.close() reject at this await, and the statements after it are
\* not run. The caller that got the exception makes no further call.
CloseClientRaises(c) ==
    LET k == initCalls[c].pos
    IN /\ initCalls[c].pc = "closing"
       /\ k <= Len(mcpClients)
       /\ Goto(c, [pc |-> "closeFailed", pos |-> k])
       /\ UNCHANGED <<toolVars, managerVars, loopVars, resolveVars, heapVars,
                      mcpConfigs, localToolPaths,
                      initialized, agentInitialized, sessions>>

\* tools.ts 352-356: the maps and the descriptor list are emptied
CloseDone(c) ==
    /\ initCalls[c].pc = "closing"
    /\ initCalls[c].pos > Len(mcpClients)
    /\ mcpClients' = <<>>
    /\ mcpTools' = [n \in {} |-> "none"]
    /\ localTools' = {}
    /\ toolInfos' = <<>>
    /\ initialized' = FALSE
    /\ Goto(c, [pc |-> "closed", pos |-> 0])
    /\ UNCHANGED <<callVars, skills, loopVars, resolveVars, heapVars,
                   mcpConfigs, localToolPaths,
                   agentInitialized, sessions>>

\* agent.ts 173: this.initialized = false, and close() returns
AgentCloseDone(c) ==
    /\ initCalls[c].pc = "closed"
    /\ agentInitialized' = FALSE
    /\ Goto(c, [pc |-> "idle", pos |-> 0])
    /\ UNCHANGED <<toolVars, managerVars, loopVars, resolveVars, heapVars,
                   mcpConfigs, localToolPaths,
                   initialized, sessions>>

\* A ToolManager and a ChatAgent after their constructors (tools.ts 64-72,
\* agent.ts 34-42)
InitInit ==
    /\ mcpConfigs \in ServerConfigLists
    /\ localToolPaths = <<"tools.js">>
    /\ mcpClients = <<>>
    /\ sessions = <<>>
    /\ mcpTools = [n \in {} |-> "none"]
    /\ localTools = {}
    /\ toolInfos = <<>>
    /\ initialized = FALSE
    /\ agentInitialized = FALSE
    /\ initCalls = [c \in Callers |-> Idle]
    /\ InitCall
    /\ InitIdleResolve
    /\ InitIdleHeap
    /\ InitIdleLoop

NextInit ==
    \/ \E c \in Callers : \E plan \in Plans : Initialize(c, plan)
    \/ \E c \in Callers : Connect(c)
    \/ \E c \in Callers : Discover(c)
    \/ \E c \in Callers : LoadLocal(c)
    \/ \E c \in Callers : InitDone(c)
    \/ \E c \in Callers : AgentInitDone(c)

SpecInit == InitInit /\ [][NextInit]_vars

NextLife ==
    \/ NextInit
    \/ \E c \in Callers : Close(c)
    \/ \E c \in Callers : CloseClient(c)
    \/ \E c \in Callers : CloseClientRaises(c)
    \/ \E c \in Callers : CloseDone(c)
    \/ \E c \in Callers : AgentCloseDone(c)

SpecLife == InitInit /\ [][NextLife]_vars

\* tools.ts 108-110, 139-141 and 95-99: a config connectMCPServer can use
Usable(config) == config.transport \in KnownTransports /\ config.target

\* The callers whose initialize() has gone through the two loops
Completed == {c \in Callers : /\ initCalls[c].pc = "validate"
                              /\ DOMAIN initCalls[c].plan.server = DOMAIN mcpConfigs}

ServerUp(plan, k) == Usable(mcpConfigs[k]) /\ plan.server[k] = "up"

Descriptor(name, source) ==
    \E i \in DOMAIN toolInfos : toolInfos[i] = [name |-> name, source |-> source]

\* No call of initialize() has connected or will connect server k
FailedForAll(k) ==
    /\ ~agentInitialized
    /\ \A d \in Callers :
          \/ initCalls[d].plan = Idle.plan
          \/ ~ServerUp(initCalls[d].plan, k)

\* C18: whatever subset of the configured servers fails to connect or to
\* list its tools (missing command or url, unknown transport, connect or
\* handshake error), initialize() does not throw; when it has gone through
\* its loops every other configured server is connected and each of its tools
\* is registered with a descriptor, every module that imports has its tools
\* registered, and a server that failed in every call has no tool and no
\* descriptor.
C18_ConnectorFailureIsolated ==
    /\ NoCallerIn({"thrown"})
    /\ \A c \in Completed :
          LET plan == initCalls[c].plan
          IN /\ \A k \in DOMAIN mcpConfigs :
                   ServerUp(plan, k) =>
                     /\ mcpConfigs[k].name \in clientNames
                     /\ \A t \in Range(ServerTools(mcpConfigs[k].name)) :
                           /\ t \in DOMAIN mcpTools
                           /\ Descriptor(t, McpSource(mcpConfigs[k].name))
             /\ \A j \in DOMAIN localToolPaths :
                   plan.module[j] =>
                     \A t \in Range(ModuleTools(localToolPaths[j])) :
                        t \in localTools /\ Descriptor(t, LocalSource)
             /\ \A k \in DOMAIN mcpConfigs :
                   FailedForAll(k) =>
                     /\ \A t \in DOMAIN mcpTools : mcpTools[t] # mcpConfigs[k].name
                     /\ \A i \in DOMAIN toolInfos :
                           toolInfos[i].source # McpSource(mcpConfigs[k].name)

\* One server fails, the other is connected with its tools, the module is
\* loaded, and initialize() has gone through its loops
C18_Witness ==
    \E c \in Completed :
       LET plan == initCalls[c].plan
       IN /\ \E k \in DOMAIN mcpConfigs : FailedForAll(k)
          /\ \E k \in DOMAIN mcpConfigs :
                ServerUp(plan, k) /\ mcpConfigs[k].name \in clientNames
          /\ \E j \in DOMAIN localToolPaths : plan.module[j]

\* tools.ts 281-321: the backend callToolImpl sends a name to, written as the
\* source of a descriptor
dispatchTarget(name) ==
    IF name \in DOMAIN mcpTools THEN McpSource(mcpTools[name])
    ELSE IF name \in localTools THEN LocalSource
    ELSE <<"none">>

Descriptors(name) == {i \in DOMAIN toolInfos : toolInfos[i].name = name}
LastRegistered(name) ==
    toolInfos[CHOOSE i \in Descriptors(name) : \A j \in Descriptors(name) : j <= i]

\* C20: once initialization has finished, the registry exports exactly one
\* descriptor for each tool name, and callTool dispatches the name to the
\* backend that registered it last.
C20_LastRegistrationWins ==
    initialized =>
      \A name \in Range(getToolNames) :
         /\ Cardinality(Descriptors(name)) = 1
         /\ dispatchTarget(name) = LastRegistered(name).source

\* C19: no session is closed twice, and when close() has gone through the
\* clients and emptied the maps, every session that was connected, by
\* whichever call of initialize(), has been closed once.
C19_EverySessionClosedOnce ==
    /\ \A i \in DOMAIN sessions : sessions[i].closes <= 1
    /\ ~NoCallerIn({"closed"}) => \A i \in DOMAIN sessions : sessions[i].closes = 1

\* C28: at every moment there is at most one session for each configured
\* server, and the tools of a server are registered once: no two sessions
\* have been opened to the same server, and no two descriptors of the
\* registry have the same name and the same server as their source.
C28_OneSessionPerServer ==
    /\ \A i, j \in DOMAIN sessions :
            sessions[i].server = sessions[j].server => i = j
    /\ \A i, j \in DOMAIN toolInfos :
            /\ toolInfos[i].source # LocalSource
            /\ toolInfos[i].name = toolInfos[j].name
            /\ toolInfos[i].source = toolInfos[j].source
            => i = j

(***************************************************************************)
(* The two loop variants compared.                                         *)
(***************************************************************************)
Ended == pc \in {"returned", "thrown"}
LastOutcome == modelLog[Invocations]

\* C21: how a run ends and how many model invocations it makes is decided by
\* the model outcomes alone, the same for both variants: a text answer ends
\* the run normally after one more invocation than iterations counted; a
\* failure that is not a context overflow ends it with an error; after a
\* tool-call answer or a context-overflow failure (pruned and retried) the
\* run goes on and ends normally only with the iterations used up.
C21_VariantsEndAlike ==
    (Ended /\ Invocations > 0) =>
        CASE LastOutcome.kind = "text" ->
                pc = "returned" /\ Invocations = iteration + 1
          [] LastOutcome.kind = "tools" ->
                pc = "returned" /\ iteration = MAX_AGENT_ITERATIONS
          [] LastOutcome.kind = "failure" /\ OverflowText(LastOutcome.error) ->
                pc = "returned" /\ iteration = MAX_AGENT_ITERATIONS
          [] OTHER ->
                pc = "thrown" /\ Invocations = iteration + 1

(***************************************************************************)
(* resolveConfigVars (tools.ts 20-41). A string is a sequence of tokens;   *)
(* "${", "}" and "." are tokens of their own.                              *)
(***************************************************************************)
\* Pieces a template is made of before it is resolved
MaxPieces == 2

Obj(fields) == [t |-> "object", fields |-> fields]
Placeholder(name) == <<"${">> \o name \o <<"}">>
ConfigPrefix == <<"config", ".">>

\* Index of the first "}" of s at or after i, 0 when there is none
FirstClose(s, i) ==
    IF \E j \in i..Len(s) : s[j] = "}"
    THEN CHOOSE j \in i..Len(s) : s[j] = "}" /\ \A k \in i..(j - 1) : s[k] # "}"
    ELSE 0

\* tools.ts 22, 36: where a match of /\$\{<prefix>([^}]+)\}/ that starts at i
\* ends, 0 when none starts at i
MatchEnd(s, i, prefix) ==
    LET from == i + 1 + Len(prefix)
        j == FirstClose(s, from)
    IN IF /\ s[i] = "${"
          /\ from <= Len(s) + 1
          /\ SubSeq(s, i + 1, from - 1) = prefix
          /\ j > from
       THEN j ELSE 0

\* String.prototype.split(".")
RECURSIVE Split(_)
Split(path) ==
    IF \E i \in DOMAIN path : path[i] = "."
    THEN LET i == CHOOSE i \in DOMAIN path :
                      path[i] = "." /\ \A k \in 1..(i - 1) : path[k] # "."
         IN <<SubSeq(path, 1, i - 1)>> \o Split(SubSeq(path, i + 1, Len(path)))
    ELSE <<path>>

\* tools.ts 24-31: the walk along the parts; found is FALSE when a part
\* is missing or the walk reaches a value that is not an object
RECURSIVE Walk(_, _)
Walk(current, parts) ==
    IF parts = <<>> THEN [found |-> TRUE, value |-> current]
    ELSE IF current.t = "object" /\ Head(parts) \in DOMAIN current.fields
         THEN Walk(current.fields[Head(parts)], Tail(parts))
         ELSE [found |-> FALSE, value |-> Undefined]

configReplacementNever(path, config) == Placeholder(ConfigPrefix \o path)

\* tools.ts 22-33: the replacement of one ${config.<path>} match
configReplacement(path, config) ==
    LET walk == Walk(config, Split(path))
    IN IF walk.found THEN StringOf(walk.value) ELSE Placeholder(ConfigPrefix \o path)

\* tools.ts 36-38: the replacement of one ${<varName>} match
envReplacement(varName) ==
    IF varName \in DOMAIN env /\ env[varName] # <<>> THEN env[varName]
    ELSE Placeholder(varName)

\* tools.ts 22: value.replace(/\$\{config\.([^}]+)\}/g, ...), from index i on
RECURSIVE replaceConfig(_, _, _)
replaceConfig(s, i, config) ==
    IF i > Len(s) THEN <<>>
    ELSE LET j == MatchEnd(s, i, ConfigPrefix)
         IN IF j > 0
            THEN configReplacement(SubSeq(s, i + 1 + Len(ConfigPrefix), j - 1), config)
                 \o replaceConfig(s, j + 1, config)
            ELSE <<s[i]>> \o replaceConfig(s, i + 1, config)

\* tools.ts 36: result.replace(/\$\{([^}]+)\}/g, ...), from index i on
RECURSIVE replaceEnv(_, _)
replaceEnv(s, i) ==
    IF i > Len(s) THEN <<>>
    ELSE LET j == MatchEnd(s, i, <<>>)
         IN IF j > 0
            THEN envReplacement(SubSeq(s, i + 1, j - 1)) \o replaceEnv(s, j + 1)
            ELSE <<s[i]>> \o replaceEnv(s, i + 1)

\* tools.ts 20-41
resolveConfigVars(v, config) == replaceEnv(replaceConfig(v, 1, config), 1)

\* The inputs: templates of up to MaxPieces pieces, configuration objects,
\* environments
ApiKey == <<"api", ".", "key">>
Pieces ==
    { <<"text">>, <<"}">>,
      Placeholder(ConfigPrefix \o ApiKey), Placeholder(ConfigPrefix \o <<"api">>),
      Placeholder(ConfigPrefix \o <<"x">>),
      Placeholder(<<"HOME">>), Placeholder(<<"UNSET_VAR_123">>) }
RECURSIVE Flatten(_)
Flatten(ps) == IF ps = <<>> THEN <<>> ELSE Head(ps) \o Flatten(Tail(ps))
PieceLists == UNION {[1..k -> Pieces] : k \in 1..MaxPieces}
Templates == {Flatten(ps) : ps \in PieceLists}
ConfigObjects ==
    { Obj([k \in {<<"api">>} |-> Obj([j \in {<<"key">>} |-> Str(<<"XYZ">>)])]),
      Obj([k \in {<<"api">>} |-> Obj([j \in {<<"key">>} |-> Str(Placeholder(<<"HOME">>))])]),
      Obj([k \in {<<"api">>} |-> Str(<<"XYZ">>)]),
      Obj([k \in {<<"x">>} |-> Null]) }
Environments ==
    { [n \in {} |-> <<>>],
      [n \in {<<"HOME">>} |-> <<"/root">>],
      [n \in {<<"HOME">>, ConfigPrefix \o <<"x">>} |-> <<>>],
      [n \in {ConfigPrefix \o <<"x">>, ConfigPrefix \o ApiKey} |-> <<"from-env">>] }

\* tools.ts 20-41: the call returns
ResolveReturns ==
    /\ resolved = Null
    /\ resolved' = Str(resolveConfigVars(template, configObject))
    /\ UNCHANGED <<toolVars, managerVars, lifeVars, loopVars, heapVars,
                   template, configObject, env>>

\* The caller's next call
ResolveCalled ==
    /\ resolved # Null
    /\ template' \in Templates
    /\ resolved' = Null
    /\ UNCHANGED <<toolVars, managerVars, lifeVars, loopVars, heapVars, configObject, env>>

InitResolve ==
    /\ InitRegistry
    /\ InitCall
    /\ InitIdleLoop
    /\ InitIdleHeap
    /\ template \in Templates
    /\ configObject \in ConfigObjects
    /\ env \in Environments
    /\ resolved = Null

NextResolve == ResolveReturns \/ ResolveCalled

SpecResolve == InitResolve /\ [][NextResolve]_vars

(***************************************************************************)
(* Properties of template resolution.                                      *)
(***************************************************************************)
IsPlaceholder(p) == Len(p) > 2 /\ p[1] = "${" /\ p[Len(p)] = "}"
IsConfigPlaceholder(p) == IsPlaceholder(p) /\ Len(p) > 4 /\ SubSeq(p, 2, 3) = ConfigPrefix
IsEnvPlaceholder(p) == IsPlaceholder(p) /\ ~IsConfigPlaceholder(p)
NameOf(p) == SubSeq(p, 2, Len(p) - 1)
PathOf(p) == SubSeq(p, 4, Len(p) - 1)

\* The value the dotted path of a ${config...} placeholder leads to
Found(p) == Walk(configObject, Split(PathOf(p)))
PathResolves(p) == IsConfigPlaceholder(p) /\ Found(p).found
PathFails(p) == IsConfigPlaceholder(p) /\ ~Found(p).found
HoldsPlaceholder(text) == \E i \in DOMAIN text : text[i] = "${"
VarUnset(p) == IsEnvPlaceholder(p) /\ NameOf(p) \notin DOMAIN env

\* The ways the template splits into pieces
Splits == {ps \in PieceLists : Flatten(ps) = template}
Each(ps, expected(_)) == Flatten([i \in DOMAIN ps |-> expected(ps[i])])

FoundString(p) == IF PathResolves(p) THEN StringOf(Found(p).value) ELSE p

\* C22 as claimed: in a template of plain text, ${config...} placeholders
\* whose path resolves and ${VAR} placeholders whose variable is not set,
\* every config placeholder is replaced by the string form of the value found
\* and every ${VAR} placeholder is left as it is.
C22_ResolvedAndUnsetPlaceholders ==
    resolved # Null =>
        \A ps \in Splits :
            (\A i \in DOMAIN ps :
                ~IsPlaceholder(ps[i]) \/ PathResolves(ps[i]) \/ VarUnset(ps[i]))
            => resolved.s = Each(ps, FoundString)

\* C22 amended: the same for values whose string form holds no "${"; a value
\* that holds a placeholder of its own goes through the environment pass.
C22_ResolvedPlainValuesAndUnset ==
    resolved # Null =>
        \A ps \in Splits :
            (\A i \in DOMAIN ps :
                \/ ~IsPlaceholder(ps[i])
                \/ PathResolves(ps[i]) /\ ~HoldsPlaceholder(FoundString(ps[i]))
                \/ VarUnset(ps[i]))
            => resolved.s = Each(ps, FoundString)

C22_Witness ==
    /\ template = Placeholder(ConfigPrefix \o ApiKey) \o Placeholder(<<"UNSET_VAR_123">>)
    /\ resolved = Str(<<"XYZ">> \o Placeholder(<<"UNSET_VAR_123">>))
    /\ <<"HOME">> \in DOMAIN env

FromEnvIfSet(p) ==
    IF PathResolves(p) THEN StringOf(Found(p).value)
    ELSE IF PathFails(p) /\ NameOf(p) \in DOMAIN env THEN env[NameOf(p)]
    ELSE p

ConfigOnly(ps) ==
    \A i \in DOMAIN ps :
        \/ ~IsPlaceholder(ps[i])
        \/ PathResolves(ps[i]) /\ ~HoldsPlaceholder(FoundString(ps[i]))
        \/ PathFails(ps[i])

\* C23: in a template of plain text and ${config...} placeholders,
\* a placeholder whose path resolves is replaced by the value found, whatever
\* the environment holds under its name; one whose path lookup fails is
\* replaced by the value of the environment variable named like its content
\* (config.x) when that variable is set, and stays unchanged otherwise.
C23_ConfigFirstThenEnvironment ==
    resolved # Null =>
        \A ps \in Splits : ConfigOnly(ps) => resolved.s = Each(ps, FromEnvIfSet)

(***************************************************************************)
(* The loaded-skill set over the invocations on one agent.                 *)
(***************************************************************************)
\* The step in which the execute function of a load_skill request finishes
LoadSkillCompletes(k) ==
    /\ k \in DOMAIN toolCalls
    /\ toolCalls[k].toolName = "load_skill"
    /\ toolCalls[k].toolCallId \in running
    /\ toolCalls[k].toolCallId \notin running'

\* C24: no step takes a skill name out of the loaded set, whatever it is: a
\* load_skill, load_reference or load_script execution, the tool-set assembly
\* of an iteration with its schema queries, a model invocation, the end of an
\* invocation or the start of the next one; and the set changes only in the
\* step that completes a load_skill request, by configured names of that
\* request.
C24_LoadedSetOnlyGrows ==
    [][/\ loadedSkills \subseteq loadedSkills'
       /\ loadedSkills' # loadedSkills =>
            \E k \in DOMAIN toolCalls :
                /\ LoadSkillCompletes(k)
                /\ loadedSkills' \ loadedSkills
                        \subseteq Range(toolCalls[k].args) \cap DOMAIN skills]_vars

\* A skill is loaded, a later invocation on the agent has started and has
\* run load_reference, and the skill is still loaded
C24_Witness ==
    /\ "weather" \in loadedSkills
    /\ \A i \in DOMAIN modelLog : "load_skill" \notin Range(modelLog[i].tools)
    /\ \E r \in Range(toolResults) : r.toolName = "load_reference"

(***************************************************************************)
(* The result at the iteration limit.                                      *)
(***************************************************************************)
\* The non-streaming loop has returned through the return after its for loop
ReturnedAtLimit ==
    /\ variant = "generate"
    /\ pc = "returned"
    /\ Invocations > 0
    /\ LastOutcome.kind # "text"

\* A model response of this run came with tool calls and a text: its
\* assistant message is in the buffer
TextProduced ==
    \E i \in DOMAIN coreMessages :
        /\ coreMessages[i].role = "assistant"
        /\ coreMessages[i].calls # <<>>
        /\ coreMessages[i].hasText

\* C25: when the non-streaming loop returns because the iterations are used
\* up, the result is an AgentResponse whose content holds the text of the
\* model responses of the run, empty only when none of them had a text, and
\* whose reasoning is the accumulated reasoning.
C25_LimitReturnsAccumulatedText ==
    ReturnedAtLimit =>
        /\ result.t = "object"
        /\ result.reasoning = joinedReasoning(accumulatedReasoning)
        /\ TextProduced => result.content # Str(<<>>)

(***************************************************************************)
(* Objects shared by reference. heap[r] is what the object r is now: arrays *)
(* and schema objects are reached through references, so that a change     *)
(* made through one reference shows through every other. Two invocations   *)
(* of the loop run on one agent, interleaved at their awaits.              *)
(***************************************************************************)
Array(items) == [kind |-> "array", items |-> items]
\* a property of a parameter schema; "" stands for an absent key
Prop(type, format) == [kind |-> "prop", type |-> type, format |-> format]
\* properties lists the entries in the order of Object.entries
Schema(properties, required, additionalProperties) ==
    [kind |-> "schema", properties |-> properties, required |-> required,
     additionalProperties |-> additionalProperties]

Allocated(h, r) == [heap |-> h, ref |-> r]
New(h, object) == Allocated(Append(h, object), Len(h) + 1)

mapConvertMessageSameArray(h, r) ==
    Allocated([h EXCEPT ![r].items =
                    [i \in DOMAIN @ |-> convertMessage(@[i], i)]], r)

\* loop.ts 343: messages.map(convertMessage) makes a new array
mapConvertMessage(h, r) ==
    New(h, Array([i \in DOMAIN h[r].items |-> convertMessage(h[r].items[i], i)]))

\* loop.ts 47-49 and 60-76: pruneContext returns its argument, the same
\* array, for 12 messages or fewer, and a new array otherwise
pruneContextRef(h, r) ==
    IF Len(h[r].items) <= PRUNE_MIN_MESSAGES THEN Allocated(h, r)
    ELSE New(h, Array(pruneContext(h[r].items)))

\* loop.ts 83-94
pruneContextIfNeededRef(h, r) ==
    IF estimateContextSize(h[r].items) < CONTEXT_CHAR_LIMIT THEN Allocated(h, r)
    ELSE pruneContextRef(h, r)

\* loop.ts 139: the formats OpenAI does not support
openaiUnsupportedFormats == {"uri", "uri-reference", "iri", "iri-reference"}

\* loop.ts 142-157: the fixes made to one property
fixedProp(prop, provider) ==
    [prop EXCEPT !.type = IF @ = "" THEN "string" ELSE @,
                 !.format = IF provider = "openai" /\ @ \in openaiUnsupportedFormats
                            THEN "" ELSE @]

\* loop.ts 161-178: the schema fixJsonSchema returns, its properties at refs
fixedSchema(params, refs, provider) ==
    Schema([k \in DOMAIN params.properties |->
                [key |-> params.properties[k].key, ref |-> refs[k]]],
           IF provider = "openai"
           THEN [k \in DOMAIN params.properties |-> params.properties[k].key]
           ELSE params.required,
           IF provider = "openai" THEN "false" ELSE "")

fixJsonSchemaInPlace(h, paramsRef, provider) ==
    LET params == h[paramsRef]
        refs == [k \in DOMAIN params.properties |-> params.properties[k].ref]
        fixed == [r \in DOMAIN h |->
                    IF r \in Range(refs) THEN fixedProp(h[r], provider) ELSE h[r]]
    IN New(fixed, fixedSchema(params, refs, provider))

\* loop.ts 133-181: every property is copied ({ ...prop }) and the copy is
\* fixed; the result is a new object
fixJsonSchema(h, paramsRef, provider) ==
    LET params == h[paramsRef]
        copies == [k \in DOMAIN params.properties |->
                        fixedProp(h[params.properties[k].ref], provider)]
        refs == [k \in DOMAIN params.properties |-> Len(h) + k]
    IN New(h \o copies, fixedSchema(params, refs, provider))

\* loop.ts 243-250 with 186-204: convertToolToAISDK for every schema to add
RECURSIVE convertSchemas(_, _, _)
convertSchemas(h, infos, provider) ==
    IF infos = <<>> THEN h
    ELSE convertSchemas(fixJsonSchema(h, Head(infos).parameters, provider).heap,
                        Tail(infos), provider)

\* loop.ts 243-246: the descriptors whose tools the tool set holds
schemasToAdd == SelectSeq(toolInfos, LAMBDA info : info.name \in buildAISDKTools)

RunIds == {"r1", "r2"}
Providers == {"openai", "anthropic"}
NotRunning ==
    [pc |-> "idle", messages |-> 0, coreMessages |-> 0, iteration |-> 0, provider |-> ""]

\* The parameter schemas the registry holds (tools.ts 175-180, 209-214) and
\* the message arrays callers pass
RegistryObjects ==
    << Prop("", "uri"), Prop("string", "date"),
       Schema(<<[key |-> "url", ref |-> 1], [key |-> "when", ref |-> 2]>>, <<"url">>, ""),
       Schema(<<>>, <<>>, "") >>
CallerArrays ==
    << Array(History(12, 2, 40000)), Array(History(13, 1, 40000)) >>
CallerRefs == (Len(RegistryObjects) + 1)..(Len(RegistryObjects) + Len(CallerArrays))

\* loop.ts 348-366: the for loop's test and, with an iteration left, the
\* proactive pruning, the tool set built with the fixed schemas, and the
\* model invocation at which the invocation awaits; no other invocation
\* runs between the steps of this
iterationStart(h, run) ==
    IF moreIterations(run.iteration)
    THEN LET pruned == pruneContextIfNeededRef(h, run.coreMessages)
         IN [heap |-> convertSchemas(pruned.heap, schemasToAdd, run.provider),
             run |-> [run EXCEPT !.pc = "model", !.coreMessages = pruned.ref]]
    ELSE [heap |-> h, run |-> [run EXCEPT !.pc = "done"]]

Continue(i, next) ==
    /\ heap' = next.heap
    /\ runs' = [runs EXCEPT ![i] = next.run]

\* loop.ts 331-366: an invocation starts on the array r of its caller and
\* runs up to its first model invocation; the provider is that of the agent's
\* llm config (agent.ts 121). The invocations are alike, so r1 is the name
\* of the one that starts first.
Start(i, r) ==
    LET core == mapConvertMessage(heap, r)
    IN /\ runs[i].pc = "idle"
       /\ i = "r2" => runs["r1"].pc # "idle"
       /\ Continue(i, iterationStart(core.heap,
                        [pc |-> "loop", messages |-> r, coreMessages |-> core.ref,
                         iteration |-> 0, provider |-> runs[i].provider]))
       /\ UNCHANGED <<toolVars, managerVars, lifeVars, loopVars, resolveVars>>

\* loop.ts 367-373, 348-366: the model invocation fails with a context
\* overflow: reactive pruning, then the next iteration
Overflow(i) ==
    LET pruned == pruneContextRef(heap, runs[i].coreMessages)
    IN /\ runs[i].pc = "model"
       /\ Continue(i, iterationStart(pruned.heap,
                        [runs[i] EXCEPT !.coreMessages = pruned.ref,
                                        !.iteration = afterOverflow(@)]))
       /\ UNCHANGED <<toolVars, managerVars, lifeVars, loopVars, resolveVars>>

\* loop.ts 385-411, 348-366: the model requested a tool of its tool set and
\* the tool ran through callTool; the two messages are pushed onto the
\* buffer, then the next iteration
ToolPhase(i, name) ==
    LET r == runs[i].coreMessages
        calls == WithIds(<<[toolName |-> name, args |-> <<>>]>>, runs[i].iteration)
        results == <<[toolCallId |-> calls[1].toolCallId, toolName |-> name,
                      result |-> callToolResult(name, Resolve(name).backend # "none")]>>
        pushed == [heap EXCEPT ![r].items =
                        @ \o toolPhaseMessages(@, Str(<<>>), calls, results)]
    IN /\ runs[i].pc = "model"
       /\ name \in buildAISDKTools \cap Range(getToolNames)
       /\ Continue(i, iterationStart(pushed, [runs[i] EXCEPT !.iteration = @ + 1]))
       /\ UNCHANGED <<toolVars, managerVars, lifeVars, loopVars, resolveVars>>

\* loop.ts 374, 412-418: the invocation ends with an answer or an error
Finish(i) ==
    /\ runs[i].pc = "model"
    /\ runs' = [runs EXCEPT ![i].pc = "done"]
    /\ UNCHANGED <<toolVars, managerVars, lifeVars, loopVars, resolveVars, heap>>

\* An initialized agent (tools.ts 165-220) whose skills may have been loaded
\* by earlier invocations, and the arrays of its callers
InitShare ==
    /\ mcpConfigs = <<[name |-> "server", transport |-> "stdio", target |-> TRUE]>>
    /\ localToolPaths = <<"local.js">>
    /\ mcpClients = <<[name |-> "server", client |-> 1]>>
    /\ sessions = <<[server |-> "server", closes |-> 0]>>
    /\ mcpTools = [n \in {"remote_tool"} |-> "server"]
    /\ localTools = {"local_tool"}
    /\ toolInfos = <<[name |-> "remote_tool", source |-> McpSource("server"),
                      parameters |-> 3],
                     [name |-> "local_tool", source |-> LocalSource, parameters |-> 4]>>
    /\ initialized = TRUE
    /\ agentInitialized = TRUE
    /\ initCalls = [c \in Callers |-> Idle]
    /\ InitCall
    /\ InitIdleResolve
    /\ skills = TwoSkills
    /\ loadedSkills \in {{"weather"}, {"math"}}
    /\ variant = "generate"
    /\ pc = "returned"
    /\ messages = <<>>
    /\ coreMessages = <<>>
    /\ iteration = 0
    /\ tools = {}
    /\ toolCalls = <<>>
    /\ toolResults = <<>>
    /\ running = {}
    /\ response = [text |-> Str(<<>>), reasoning |-> Undefined]
    /\ accumulatedReasoning = <<>>
    /\ result = Null
    /\ yielded = <<>>
    /\ modelLog = <<>>
    /\ heap = RegistryObjects \o CallerArrays
    /\ \E provider \in Providers :
            runs = [i \in RunIds |-> [NotRunning EXCEPT !.provider = provider]]

NextShare ==
    \/ \E i \in RunIds, r \in CallerRefs : Start(i, r)
    \/ \E i \in RunIds : Overflow(i)
    \/ \E i \in RunIds, name \in ToolNames : ToolPhase(i, name)
    \/ \E i \in RunIds : Finish(i)

SpecShare == InitShare /\ [][NextShare]_vars

Active(i) == runs[i].pc # "idle"
ActiveAfter(i) == runs'[i].pc # "idle"

\* C26: every invocation of the loop works on a buffer of its own: the array
\* of its caller is never modified, the buffers of two invocations are never
\* the same array nor an array of a caller, and a step of one invocation
\* leaves the buffer of every other invocation as it was.
C26_BufferOwnedByInvocation ==
    [][ /\ \A r \in CallerRefs : heap'[r] = heap[r]
        /\ \A i \in RunIds :
                ActiveAfter(i) => runs'[i].coreMessages \notin CallerRefs
        /\ \A i, j \in RunIds :
                i # j /\ ActiveAfter(i) /\ ActiveAfter(j)
                    => runs'[i].coreMessages # runs'[j].coreMessages
        /\ \A i, j \in RunIds :
                i # j /\ runs'[i] # runs[i] /\ Active(j)
                    => /\ runs'[j] = runs[j]
                       /\ heap'[runs[j].coreMessages] = heap[runs[j].coreMessages]
      ]_vars

\* two invocations run on the same array of a caller, and the buffer of one
\* has changed in an iteration while the other's still has the length of the
\* caller's array
C26_Witness ==
    /\ runs["r1"].pc = "model" /\ runs["r2"].pc = "model"
    /\ runs["r1"].messages = runs["r2"].messages
    /\ runs["r1"].iteration > 0
    /\ heap[runs["r1"].coreMessages] # heap[runs["r2"].coreMessages]
    /\ Len(heap[runs["r2"].coreMessages].items)
            = Len(heap[runs["r2"].messages].items)

\* the parameter schemas of the registry and their properties
RegistryRefs ==
    UNION { {toolInfos[k].parameters}
                \cup { heap[toolInfos[k].parameters].properties[n].ref :
                            n \in DOMAIN heap[toolInfos[k].parameters].properties }
            : k \in DOMAIN toolInfos }

\* C27: while the loop runs, the tool registry is only read: its maps, its
\* descriptors and their parameter schemas stay as they are, and the schema
\* fixes are made on copies.
C27_RegistryReadOnlyInLoop ==
    [][ /\ UNCHANGED <<mcpClients, mcpTools, localTools, toolInfos, sessions>>
        /\ \A r \in RegistryRefs : heap'[r] = heap[r]
      ]_vars

\* a fixed copy of the schema of remote_tool exists for OpenAI: closed,
\* every property required, the format dropped and the type filled in on the
\* copy of a property, and the registry's schema still as registered
C27_Witness ==
    /\ \E i \in RunIds : runs[i].pc = "model" /\ runs[i].provider = "openai"
    /\ \E r \in DOMAIN heap :
            /\ r \notin RegistryRefs
            /\ heap[r].kind = "schema"
            /\ heap[r].additionalProperties = "false"
            /\ heap[r].required = <<"url", "when">>
            /\ \E n \in DOMAIN heap[r].properties :
                    /\ heap[r].properties[n].ref \notin RegistryRefs
                    /\ heap[heap[r].properties[n].ref] = Prop("string", "")
    /\ heap[1] = Prop("", "uri")
    /\ heap[3].required = <<"url">>

\* C30: the value ChatAgent.run resolves to, which is the value the loop
\* returned (agent.ts 118-124 returns it as it is), is a string: the text of
\* the final response.
C30_RunResolvesToText ==
    pc = "returned" /\ variant = "generate"
        => IsString(result) /\ (moreIterations(iteration) => result = response.text)

(***************************************************************************)
(* Termination of callTool, checked under SpecToolFair.                    *)
(***************************************************************************)
EveryAttemptTimedOut ==
    /\ Len(attemptLog) = TOOL_MAX_RETRIES
    /\ \A k \in DOMAIN attemptLog : attemptLog[k].how = "timeout"

ExhaustionByTimeout ==
    Str(<<"Error: Tool '", ctName, "' failed after ", ToString(TOOL_MAX_RETRIES),
          " attempts: ", "Timeout after ", ToString(TOOL_TIMEOUT_MS), "ms">>)

\* C29: a call of callTool eventually returns, whether or not its backend
\* ever responds; and when every one of the attempts allowed was abandoned
\* at its timeout, the backoff sleeps were slept between them and the call
\* returned the exhaustion string with the timeout message.
C29_CallToolEventuallyReturns ==
    /\ (ctPc # "idle") ~> (ctPc = "returned")
    /\ [](ctPc = "returned" /\ EveryAttemptTimedOut
            => /\ ctResult = ExhaustionByTimeout
               /\ Len(Sleeps) = TOOL_MAX_RETRIES - 1)

\* the call has returned although no backend call of its attempts has
\* settled: all of them timed out and are still in flight
C29_Witness ==
    /\ ctPc = "returned"
    /\ EveryAttemptTimedOut
    /\ inFlight = 0..(TOOL_MAX_RETRIES - 1)
    /\ ctResult = ExhaustionByTimeout

(***************************************************************************)
(* Tool-call pairing in the conversation buffer, checked under SpecPaired. *)
(***************************************************************************)
CallIdsOf(m) == Range(m.calls)
ResultIdsOf(m) == {m.results[k].toolCallId : k \in DOMAIN m.results}

\* every tool message comes right after the assistant message with its call
\* ids, and every assistant message with calls is followed by its tool message
Paired(msgs) ==
    \A i \in DOMAIN msgs :
        /\ msgs[i].role = "tool"
            => /\ i > 1
               /\ msgs[i - 1].role = "assistant"
               /\ CallIdsOf(msgs[i - 1]) = ResultIdsOf(msgs[i])
        /\ msgs[i].calls # <<>>
            => /\ i < Len(msgs)
               /\ msgs[i + 1].role = "tool"
               /\ CallIdsOf(msgs[i]) = ResultIdsOf(msgs[i + 1])

\* C32: when the history the caller passed is paired, the conversation
\* buffer is paired at every model invocation of the loop, whatever
\* iterations and prunings came before.
C32_PruningKeepsPairs ==
    pc = "model" /\ Paired(InitialMessages) => Paired(coreMessages)

\* C33: when the last model invocation of a streaming run failed with an
\* error that is no context overflow, the run has not ended by a normal
\* return, as it does after a final answer without tool calls: it has ended
\* by throwing the error to the caller.
C33_StreamErrorSurfaced ==
    /\ variant = "stream"
    /\ Ended
    /\ Invocations > 0
    /\ LastOutcome.kind = "failure"
    /\ ~isContextOverflowError(Err(LastOutcome.error))
    => pc = "thrown"

\* C34: within one call of callTool at most one backend call is in flight
\* at any time: the backend call of an attempt that ended, by a result, an
\* exception or the timeout, is in flight no longer when the next attempt
\* has started, so while an attempt is awaited its backend call is the only
\* one.
C34_AttemptsNeverOverlap ==
    /\ Cardinality(inFlight) <= 1
    /\ ctPc = "await" => inFlight = {attempt}

\* C35: at every model invocation the conversation buffer is estimated
\* below the character limit or holds at most 12 messages, and a proactive
\* pruning that changes the buffer leaves at most 11 messages.
C35_BufferBoundedAtInvocation ==
    /\ [](pc = "model"
            => \/ estimateContextSize(coreMessages) < CONTEXT_CHAR_LIMIT
               \/ Len(coreMessages) <= PRUNE_MIN_MESSAGES)
    /\ [][pc = "loop" /\ pc' = "model" /\ coreMessages' # coreMessages
            => Len(coreMessages') <= PRUNE_KEEP_LAST + 1]_vars

\* a model invocation in a later iteration whose buffer proactive pruning
\* has cut to 11 messages, still estimated at the limit or above
C35_Witness ==
    /\ pc = "model"
    /\ iteration > 0
    /\ Len(coreMessages) = PRUNE_KEEP_LAST + 1
    /\ Len(coreMessages) < Len(messages) + 2 * iteration
    /\ estimateContextSize(coreMessages) >= CONTEXT_CHAR_LIMIT

\* the first user message of the list exists and is none of the last ten
FirstUserBeforeLastTen(msgs) ==
    /\ \E i \in DOMAIN msgs : msgs[i].role = "user"
    /\ \A i \in DOMAIN msgs :
            i > Len(msgs) - PRUNE_KEEP_LAST => \E j \in 1..(i - 1) : msgs[j].role = "user"
                                               \/ msgs[i].role # "user"

\* C36: pruneContext applied to its own result returns the result as it is,
\* and applied to a list of more than 12 messages it returns 10 messages, or
\* 11 when, and only when, the list has a user message and the first one is
\* none of the last 10.
C36_PruneIdempotentAndBounded ==
    /\ [][pc = "pruned" /\ pc' = "prunedAgain" => coreMessages' = coreMessages]_vars
    /\ [](pc = "pruned" /\ Len(InitialMessages) > PRUNE_MIN_MESSAGES
            => /\ Len(coreMessages) \in {PRUNE_KEEP_LAST, PRUNE_KEEP_LAST + 1}
               /\ Len(coreMessages) = PRUNE_KEEP_LAST + 1
                    <=> FirstUserBeforeLastTen(InitialMessages))

\* pruneContext has been applied twice to a list of more than 12 messages,
\* and the result holds 11: the first user message, then the last 10
C36_Witness ==
    /\ pc = "prunedAgain"
    /\ Len(InitialMessages) > PRUNE_MIN_MESSAGES
    /\ Len(coreMessages) = PRUNE_KEEP_LAST + 1
    /\ coreMessages[1].role = "user"
    /\ coreMessages[1] \notin
            Range(SubSeq(InitialMessages, Len(InitialMessages) - PRUNE_KEEP_LAST + 1,
                         Len(InitialMessages)))

CalledSkill == toolCalls'[1].args[1]
CalledItem == toolCalls'[1].args[2]
Readable == toolCalls'[1].readOk

\* C37: the loaded skills are always among the configured ones; a call of
\* loadReference or loadScript leaves the loaded set as it is, and the
\* getters computed from it are functions of the state that change nothing;
\* and such a call succeeds for every configured skill that has the named
\* document, readable, whether the skill is loaded or not.
C37_LoadedWithinConfigured ==
    /\ [](loadedSkills \subseteq DOMAIN skills)
    /\ [][ManagerCallStep("load_reference") \/ ManagerCallStep("load_script")
            => loadedSkills' = loadedSkills]_vars
    /\ [][/\ ManagerCallStep("load_reference")
          /\ CalledSkill \in DOMAIN skills
          /\ CalledItem \in skills[CalledSkill].references
          /\ Readable
          => result'.success]_vars
    /\ [][/\ ManagerCallStep("load_script")
          /\ CalledSkill \in DOMAIN skills
          /\ CalledItem \in DOMAIN skills[CalledSkill].scripts
          /\ Readable
          => result'.success]_vars

\* a reference of a configured skill has been loaded while another skill,
\* and not this one, is in the loaded set
C37_Witness ==
    /\ pc = "done"
    /\ toolCalls[1].toolName = "load_reference"
    /\ toolCalls[1].args = <<"weather", "guide">>
    /\ loadedSkills = {"math"}
    /\ result.success

\* C38: on an agent without skills the model is given no tool at any model
\* invocation of any loop invocation, whatever the registry holds, and no
\* response requests a tool: the loop goes on to another iteration only
\* after failed model invocations, so the first response ends it.
C38_NoSkillsNoTools ==
    skills = NoSkills
        => /\ pc \in {"model", "executing"} => tools = {}
           /\ \A i \in DOMAIN modelLog : modelLog[i].tools = <<>>
           /\ pc \in {"loop", "model"} => AlwaysAnswered("failure")

\* an invocation on an agent without skills and with registered tools has
\* ended on the first response, which came after an overflow failure
C38_Witness ==
    /\ skills = NoSkills
    /\ toolInfos # <<>>
    /\ pc = "returned"
    /\ tools = {}
    /\ Kinds = <<"failure", "text">>

\* C39: when a call of close() has ended, by returning or because closing
\* a session raised, the session map, both tool registries and the
\* descriptor list are empty, the initialized flag of the ToolManager is
\* reset, and every session of the map other than the one whose close
\* raised has been closed.
C39_CloseTearsDownCompletely ==
    \A c \in Callers :
        initCalls[c].pc \in {"closed", "closeFailed"}
            => /\ mcpClients = <<>>
               /\ DOMAIN mcpTools = {}
               /\ localTools = {}
               /\ toolInfos = <<>>
               /\ ~initialized
               /\ \A k \in DOMAIN mcpClients :
                        initCalls[c].pc = "closeFailed" /\ k # initCalls[c].pos
                            => sessions[mcpClients[k].client].closes >= 1

(***************************************************************************)
(* Termination of the loop, checked under SpecFair.                        *)
(***************************************************************************)
\* C31: a loop invocation of either variant ends, whatever outcomes the model
\* produces, and it never makes more than MAX_AGENT_ITERATIONS model
\* invocations; once it has ended, the sequence of stream events grows no
\* more.
C31_LoopTerminates ==
    /\ <>Ended
    /\ [](Invocations <= MAX_AGENT_ITERATIONS)
    /\ [][Ended => Ended' /\ yielded' = yielded]_vars

\* the non-streaming loop has ended after the model failed with a context
\* overflow at every one of the invocations allowed
C31_Witness ==
    /\ Ended
    /\ variant = "generate"
    /\ Invocations = MAX_AGENT_ITERATIONS
    /\ \A i \in DOMAIN modelLog :
            /\ modelLog[i].kind = "failure"
            /\ isContextOverflowError(Err(modelLog[i].error))

====
